---- MODULE Spec2Model ----
(***************************************************************************)
(* Verification model of the MMD runtime core (rust_engine and mmd-rs):    *)
(* Bezier curve cache, motion tracks, morph manager, IK solver, physics    *)
(* bridge and the PMX section readers.  Each subsystem has its own         *)
(* variables, initial condition, next-state relation and specification.    *)
(***************************************************************************)
EXTENDS Integers, Sequences, FiniteSets, TLC

VARIABLES
    \* ---- animation/bezier_curve.rs : BezierCurveCache ----
    overflow_checks,  \* build profile: TRUE when integer overflow panics
    curves,           \* heap of Arc<BezierCurve>; a handle is an index
    cache,            \* HashMap<CurveCacheKey, Arc<BezierCurve>>
    lock_readers,     \* threads holding the RwLock's read guard
    lock_writer,      \* thread holding the write guard, or None
    lock_poisoned,    \* RwLock poison flag
    pc,               \* position of each thread inside get_or_new
    call,             \* arguments of each thread's current call
    returned,         \* every completed call with the handle it returned
    ncalls,           \* number of get_or_new calls started
    \* ---- physics/mmd_physics.rs : MMDPhysics ----
    phase,            \* lifecycle of the bridge: created, built, dropped
    rigid_bodies,     \* Vec<MmdRigidBodyData>
    joints,           \* Vec<MmdJointData>
    world,            \* BulletWorld: what is registered in it, and whether it lives
    ffi_log,          \* physics-engine calls and object constructions, in order
    build_args,       \* history: the arguments of build_physics and the joints_enabled it read
    dynamic_bone_indices, \* HashSet<usize> computed at the end of build_physics
    sync_call,        \* the last per-frame call: name, bone_transforms before and after, result
    \* ---- mmd-rs pmx/reader : DisplayFrameReader, RigidBodyReader, JointReader ----
    readers,          \* each section reader: state, count, remaining, poison
    history,          \* per reader, the results of its next() calls, in order
    nops,             \* number of reader operations called
    \* ---- morph/manager.rs : MorphManager ----
    morphs,           \* Vec<Morph>: type, weight, group_offsets
    mpc,              \* idle, run (inside apply_morphs), done
    active_morphs,    \* the (index, weight) pairs apply_morphs still has to apply
    mstack,           \* call stack of apply_single_morph
    processed,        \* (morph index, depth) of every call that reached the dispatch
    applied,          \* the writes to the position buffer: morph index and weight of each
    \* ---- skeleton/ik_solver.rs : IkSolver::solve ----
    bones,            \* &mut [BoneLink]
    solver,           \* IkSolver: bone_index, enabled, config
    ik_pc,            \* idle, loop (inside the outer loop of solve), done
    iteration,        \* the outer loop variable
    best_distance,    \* the local best_distance
    chain_states,     \* Vec<IkChainState>: best_ik_rotate of every link
    ik_trace,         \* history: distance and every bone's ik_rotate after each executed iteration
    ik_again,         \* whether solve is called a second time when it has returned
    ik_first,         \* history: the bones as the first call of solve left them
    ik_memo,          \* history: what every inner pass so far made of its input
    \* ---- animation/motion_track.rs : BoneMotionTrack ----
    keyframes,        \* BTreeMap<u32, BoneKeyframe>: the entries in key order
    track_call,       \* the last call on the track: operation, argument, returned value
    \* ---- physics/config.rs, physics/mmd_physics.rs : per-frame simulation ----
    physics_config,   \* the global PHYSICS_CONFIG
    mmd,              \* Option<MMDPhysics>: fps, max_substep_count, prev_model_position
    sim_bodies,       \* its rigid bodies with the state the engine keeps for each
    created_config,   \* history: the configuration MMDPhysics::new read
    sim_op,           \* the last call: name, engine calls issued, model velocity
    \* ---- animation/motion_track.rs : MorphMotionTrack, seek_precisely ----
    morph_keyframes,  \* BTreeMap<u32, MorphKeyframe>: the entries in key order
    seek_call,        \* the last seek_precisely call: track, arguments, outcome
    \* ---- morph/manager.rs : material and UV morph results ----
    mat_morphs,              \* MorphManager.morphs: type, weight, offsets
    material_morph_results,  \* Vec<MaterialMorphResult>
    uv_morph_deltas,         \* Vec<Vec2>, one component each
    mat_call,                \* the last call: name, the one before it, offsets applied
    \* ---- animation/vmd_loader.rs : VmdFile::load_from_reader ----
    vmd_input,        \* the bytes behind the reader: length and the fields they hold
    vmd_result,       \* Option<Result<VmdFile>>: what load_from_reader returned
    \* ---- animation/vmd_loader.rs : VmdAnimation::evaluate_with_weight ----
    anim_bones,       \* BoneManager: name, animation_translate, animation_rotate of every bone
    anim_morphs,      \* MorphManager: name and weight of every morph
    eval_call,        \* the last evaluate_with_weight: arguments, the values before it, calls so far
    \* ---- animation/bezier_curve.rs : BezierCurve::new, value ----
    bezier,           \* Option<BezierCurve>: points, c0, c1, interval
    curve_call        \* the last call on it: name, argument, returned value

bzVars == <<overflow_checks, curves, cache, lock_readers, lock_writer,
            lock_poisoned, pc, call, returned, ncalls>>

phVars == <<phase, rigid_bodies, joints, world, ffi_log, build_args,
            dynamic_bone_indices, sync_call>>

rdVars == <<readers, history, nops>>
moVars == <<morphs, mpc, active_morphs, mstack, processed, applied>>
ikVars == <<bones, solver, ik_pc, iteration, best_distance, chain_states, ik_trace,
            ik_again, ik_first, ik_memo>>
tkVars == <<keyframes, track_call>>
smVars == <<physics_config, mmd, sim_bodies, created_config, sim_op>>
skVars == <<morph_keyframes, seek_call>>
mtVars == <<mat_morphs, material_morph_results, uv_morph_deltas, mat_call>>
vlVars == <<vmd_input, vmd_result>>
vaVars == <<anim_bones, anim_morphs, eval_call>>
cvVars == <<bezier, curve_call>>

\* what each subsystem leaves alone
bzOthers == <<phVars, rdVars, moVars, ikVars, tkVars, smVars, skVars, mtVars, vlVars, vaVars, cvVars>>
phOthers == <<bzVars, rdVars, moVars, ikVars, tkVars, smVars, skVars, mtVars, vlVars, vaVars, cvVars>>
rdOthers == <<bzVars, phVars, moVars, ikVars, tkVars, smVars, skVars, mtVars, vlVars, vaVars, cvVars>>
moOthers == <<bzVars, phVars, rdVars, ikVars, tkVars, smVars, skVars, mtVars, vlVars, vaVars, cvVars>>
ikOthers == <<bzVars, phVars, rdVars, moVars, tkVars, smVars, skVars, mtVars, vlVars, vaVars, cvVars>>
tkOthers == <<bzVars, phVars, rdVars, moVars, ikVars, smVars, skVars, mtVars, vlVars, vaVars, cvVars>>
smOthers == <<bzVars, phVars, rdVars, moVars, ikVars, tkVars, skVars, mtVars, vlVars, vaVars, cvVars>>
skOthers == <<bzVars, phVars, rdVars, moVars, ikVars, tkVars, smVars, mtVars, vlVars, vaVars, cvVars>>
mtOthers == <<bzVars, phVars, rdVars, moVars, ikVars, tkVars, smVars, skVars, vlVars, vaVars, cvVars>>
vlOthers == <<bzVars, phVars, rdVars, moVars, ikVars, tkVars, smVars, skVars, mtVars, vaVars, cvVars>>
vaOthers == <<bzVars, phVars, rdVars, moVars, ikVars, tkVars, smVars, skVars, mtVars, vlVars, cvVars>>
cvOthers == <<bzVars, phVars, rdVars, moVars, ikVars, tkVars, smVars, skVars, mtVars, vlVars, vaVars>>

vars == <<bzVars, phVars, rdVars, moVars, ikVars, tkVars, smVars, skVars, mtVars, vlVars, vaVars, cvVars>>

\* Option<T>: None is the empty sequence, Some(x) the one-element sequence
None == <<>>
Some(x) == <<x>>

Max(a, b) == IF a >= b THEN a ELSE b
Min(a, b) == IF a <= b THEN a ELSE b

(***************************************************************************)
(* Bounds of the model.                                                    *)
(***************************************************************************)
\* width in bits of the model's u32 (TLC integers cannot hold 2^32 - 1)
WordBits == 3
\* get_or_new calls per behaviour
MaxCalls == 3
\* rigid bodies and joints of a PMX model
MaxBodies == 3
MaxJoints == 2
\* records announced by a PMX section header, and reader operations called
MaxRecords == 2
MaxOps == 5
\* length of the longest cycle of Group/Flip morphs
MaxCycle == 3
\* largest IkConfig.iterations
MaxIterations == 3
\* largest frame index of a keyframe or a query
MaxFrame == 3
\* largest force a body accumulates between two steps
MaxForce == 40
\* evaluate_with_weight calls in one behaviour
MaxEvals == 3
\* largest interval of a curve built from the control point grid
MaxInterval == 3
MaxAgainIterations == 2

U32Max == 2 ^ WordBits - 1

(***************************************************************************)
(* animation/bezier_curve.rs                                               *)
(***************************************************************************)
Threads == {"t1", "t2"}

\* control points (c0, c1) as the VMD bytes the callers pass
CtrlPoints == { <<<<32, 32>>, <<96, 96>>>>, <<<<20, 20>>, <<107, 107>>>> }

\* requested intervals: 0 (raised to 1), small ones, and the largest u32
Intervals == {0, 1, 2, U32Max}

\* CurveCacheKey { c0, c1 }: the interval is not part of the key
CurveCacheKey_WithInterval(c0, c1, interval) == <<c0, c1, interval>>
CurveCacheKey(c0, c1, interval) == <<c0, c1>>

\* BezierCurve::new: interval.max(1)
BezierCurveNew(c0, c1, interval) ==
    [c0 |-> c0, c1 |-> c1, interval |-> Max(interval, 1)]

\* BezierCurve::new computes (interval + 1) in u32: with overflow checks the
\* addition panics for the largest interval
NewPanics(interval) ==
    overflow_checks /\ Max(interval, 1) + 1 > U32Max

\* get_or_new line 190: the cached curve is too coarse for the request
CachedTooSmall_Le(cachedInterval, interval) == cachedInterval <= interval
CachedTooSmall(cachedInterval, interval) == cachedInterval < interval

KeyOf(t) == CurveCacheKey(call[t].c0, call[t].c1, call[t].interval)

\* the closure build_new_curve: allocate a new Arc
Alloc(t) == Append(curves, BezierCurveNew(call[t].c0, call[t].c1, call[t].interval))

Returns(t, h, err) ==
    returned' = returned \cup
        {[t |-> t, c0 |-> call[t].c0, c1 |-> call[t].c1,
          interval |-> call[t].interval, handle |-> h, lock_err |-> err,
          absent |-> call[t].absent]}

\* the calling thread unwinds: it never returns from get_or_new
Panic(t) ==
    /\ pc' = [pc EXCEPT ![t] = "panicked"]
    /\ UNCHANGED <<curves, cache, returned>>

\* return build_new_curve()
ReturnFresh(t, err) ==
    IF NewPanics(call[t].interval)
    THEN Panic(t)
    ELSE /\ curves' = Alloc(t)
         /\ Returns(t, Len(curves) + 1, err)
         /\ pc' = [pc EXCEPT ![t] = "idle"]
         /\ UNCHANGED cache

BzInit ==
    /\ overflow_checks \in BOOLEAN
    /\ curves = <<>>
    /\ cache = <<>>
    /\ lock_readers = {}
    /\ lock_writer = None
    /\ lock_poisoned = FALSE
    /\ pc = [t \in Threads |-> "idle"]
    /\ call = [t \in Threads |-> None]
    /\ returned = {}
    /\ ncalls = 0

\* the cache while another subsystem is being exercised
BzIdle == BzInit /\ overflow_checks = FALSE

\* a thread enters get_or_new(c0, c1, interval)
GetOrNew(t) ==
    /\ pc[t] = "idle"
    /\ ncalls < MaxCalls
    /\ \E c \in CtrlPoints, n \in Intervals :
           call' = [call EXCEPT ![t] =
                       [c0 |-> c[1], c1 |-> c[2], interval |-> n,
                        absent |-> CurveCacheKey(c[1], c[2], n) \notin DOMAIN cache]]
    /\ ncalls' = ncalls + 1
    /\ pc' = [pc EXCEPT ![t] = "read"]
    /\ UNCHANGED <<overflow_checks, curves, cache, lock_readers, lock_writer,
                   lock_poisoned, returned>>
    /\ UNCHANGED bzOthers

\* self.0.read(): waits while a writer holds the lock
ReadLock(t) ==
    /\ pc[t] = "read"
    /\ lock_writer = None
    /\ lock_readers' = lock_readers \cup {t}
    /\ pc' = [pc EXCEPT ![t] = "reading"]
    /\ UNCHANGED <<overflow_checks, curves, cache, lock_writer, lock_poisoned,
                   call, returned, ncalls>>
    /\ UNCHANGED bzOthers

\* the match on the result of read(), lines 186-198; the guard is released
\* when the match is left
ReadBody(t) ==
    /\ pc[t] = "reading"
    /\ lock_readers' = lock_readers \ {t}
    /\ IF lock_poisoned
       THEN ReturnFresh(t, TRUE)
       ELSE IF KeyOf(t) \in DOMAIN cache
            THEN IF CachedTooSmall(curves[cache[KeyOf(t)]].interval, call[t].interval)
                 THEN ReturnFresh(t, FALSE)
                 ELSE /\ Returns(t, cache[KeyOf(t)], FALSE)
                      /\ pc' = [pc EXCEPT ![t] = "idle"]
                      /\ UNCHANGED <<curves, cache>>
            ELSE /\ pc' = [pc EXCEPT ![t] = "write"]
                 /\ UNCHANGED <<curves, cache, returned>>
    /\ UNCHANGED <<overflow_checks, lock_writer, lock_poisoned, call, ncalls>>
    /\ UNCHANGED bzOthers

\* self.0.write(): waits while any reader or writer holds the lock
WriteLock(t) ==
    /\ pc[t] = "write"
    /\ lock_writer = None
    /\ lock_readers = {}
    /\ lock_writer' = Some(t)
    /\ pc' = [pc EXCEPT ![t] = "writing"]
    /\ UNCHANGED <<overflow_checks, curves, cache, lock_readers, lock_poisoned,
                   call, returned, ncalls>>
    /\ UNCHANGED bzOthers

\* entry(key) of line 202 is vacant: or_insert_with builds and stores
Vacant_Always(map, key) == TRUE
Vacant(map, key) == key \notin DOMAIN map

\* the match on the result of write(), lines 201-204: entry(key).or_insert_with;
\* a panic while the write guard is held poisons the lock
WriteBody(t) ==
    /\ pc[t] = "writing"
    /\ lock_writer' = None
    /\ IF lock_poisoned
       THEN /\ ReturnFresh(t, TRUE)
            /\ UNCHANGED lock_poisoned
       ELSE IF ~Vacant(cache, KeyOf(t))
            THEN /\ Returns(t, cache[KeyOf(t)], FALSE)
                 /\ pc' = [pc EXCEPT ![t] = "idle"]
                 /\ UNCHANGED <<curves, cache, lock_poisoned>>
            ELSE IF NewPanics(call[t].interval)
                 THEN /\ Panic(t)
                      /\ lock_poisoned' = TRUE
                 ELSE /\ curves' = Alloc(t)
                      /\ cache' = (KeyOf(t) :> (Len(curves) + 1)) @@ cache
                      /\ Returns(t, Len(curves) + 1, FALSE)
                      /\ pc' = [pc EXCEPT ![t] = "idle"]
                      /\ UNCHANGED lock_poisoned
    /\ UNCHANGED <<overflow_checks, lock_readers, call, ncalls>>
    /\ UNCHANGED bzOthers

\* a thread that panicked is gone; another thread takes its place
Respawn(t) ==
    /\ pc[t] = "panicked"
    /\ pc' = [pc EXCEPT ![t] = "idle"]
    /\ call' = [call EXCEPT ![t] = None]
    /\ UNCHANGED <<overflow_checks, curves, cache, lock_readers, lock_writer,
                   lock_poisoned, returned, ncalls>>
    /\ UNCHANGED bzOthers

BzNext ==
    \E t \in Threads :
        \/ GetOrNew(t)
        \/ ReadLock(t)
        \/ ReadBody(t)
        \/ WriteLock(t)
        \/ WriteBody(t)
        \/ Respawn(t)

(***************************************************************************)
(* physics/mmd_physics.rs                                                  *)
(***************************************************************************)
\* sequences over S of length 0..n
RECURSIVE SeqsUpTo(_, _)
SeqsUpTo(S, n) ==
    IF n = 0 THEN {<<>>}
    ELSE LET shorter == SeqsUpTo(S, n - 1) IN
         shorter \cup {Append(q, x) : q \in {r \in shorter : Len(r) = n - 1}, x \in S}

\* PMX mode enum -> PhysicsMode (0 static, 1 dynamic, 2 dynamic with bone position)
PhysicsModeOf(mode) ==
    CASE mode = 0 -> "FollowBone"
      [] mode = 1 -> "Physics"
      [] mode = 2 -> "PhysicsWithBone"

\* PMX rigid bodies handed to build_physics.  made says how far the engine
\* got: "shape_fail" (create_shape returned None), "body_fail"
\* (create_rigid_body returned None) or "ok"
PmxBodies ==
    { [bone_index |-> 0,  mode |-> 0, made |-> "ok"],
      [bone_index |-> 0,  mode |-> 1, made |-> "ok"],
      [bone_index |-> -1, mode |-> 2, made |-> "ok"],
      [bone_index |-> 0,  mode |-> 1, made |-> "shape_fail"],
      [bone_index |-> 1,  mode |-> 2, made |-> "body_fail"] }

\* PMX joints: two rigid body indices (0-based, i32) and whether the engine
\* built the constraint
PmxJoints ==
    { [rigid_body_a_index |-> ab[1], rigid_body_b_index |-> ab[2], made |-> "ok"] :
        ab \in {<<0, 1>>, <<0, 0>>, <<-1, 0>>, <<1, MaxBodies>>} }
    \cup { [rigid_body_a_index |-> 1, rigid_body_b_index |-> 0, made |-> "constraint_fail"] }

\* lines 85-102: one MmdRigidBodyData per PMX rigid body, in order; the body
\* handle of slot i is i
MakeBody(pmx_rb, i) ==
    [bone_index   |-> pmx_rb.bone_index,
     physics_mode |-> PhysicsModeOf(pmx_rb.mode),
     bullet_shape |-> IF pmx_rb.made = "shape_fail" THEN None ELSE Some(i),
     bullet_body  |-> IF pmx_rb.made = "ok" THEN Some(i) ELSE None]

MakeBodies(pmx_rigid_bodies) ==
    [i \in 1..Len(pmx_rigid_bodies) |-> MakeBody(pmx_rigid_bodies[i], i)]

\* `x as usize` of an i32: a negative index becomes a huge one
AsUsize(x) == IF x < 0 THEN x + 2 ^ 30 ELSE x

JointKept_IndexOnly(pmx_joint, bodies) ==
    LET a == AsUsize(pmx_joint.rigid_body_a_index)
        b == AsUsize(pmx_joint.rigid_body_b_index)
    IN  ~(a >= Len(bodies) \/ b >= Len(bodies) \/ a = b)
\* lines 120-136: the joint is kept only when both indices name different
\* stored bodies that have a body handle
JointKept(pmx_joint, bodies) ==
    LET a == AsUsize(pmx_joint.rigid_body_a_index)
        b == AsUsize(pmx_joint.rigid_body_b_index)
    IN  /\ ~(a >= Len(bodies) \/ b >= Len(bodies) \/ a = b)
        /\ bodies[a + 1].bullet_body # None
        /\ bodies[b + 1].bullet_body # None

\* lines 138-147: MmdJointData::from_pmx for PMX joint j
MakeJoint(pmx_joint, j) ==
    [pmx        |-> j,
     rb_a       |-> pmx_joint.rigid_body_a_index + 1,
     rb_b       |-> pmx_joint.rigid_body_b_index + 1,
     constraint |-> IF pmx_joint.made = "ok" THEN Some(j) ELSE None]

RECURSIVE MakeJointsFrom(_, _, _)
MakeJointsFrom(pmx_joints, bodies, j) ==
    IF j > Len(pmx_joints) THEN <<>>
    ELSE (IF JointKept(pmx_joints[j], bodies)
          THEN <<MakeJoint(pmx_joints[j], j)>> ELSE <<>>)
         \o MakeJointsFrom(pmx_joints, bodies, j + 1)

MakeJoints(pmx_joints, bodies, joints_enabled) ==
    IF joints_enabled THEN MakeJointsFrom(pmx_joints, bodies, 1) ELSE <<>>

\* events of one kind for the entries of s whose field is a handle
Events(kind, s, field) ==
    LET held == SelectSeq(s, LAMBDA x : x[field] # None)
    IN  [i \in 1..Len(held) |-> <<kind, held[i][field][1]>>]

Stored(kind, s) == [i \in 1..Len(s) |-> <<kind, i>>]

\* build_physics in call order: store every body (83-103), add the bodies
\* (107-113), store every kept joint (119-148), add the constraints (151-155)
BuildLog_AddWhileCreating(bodies, jnts) ==
    LET one(i) == <<<<"store_body", i>>>> \o
                  (IF bodies[i].bullet_body # None
                   THEN <<<<"add_rigid_body", bodies[i].bullet_body[1]>>>> ELSE <<>>)
        F[i \in 0..Len(bodies)] == IF i = 0 THEN <<>> ELSE F[i - 1] \o one(i)
    IN  F[Len(bodies)]
        \o Stored("store_joint", jnts)
        \o Events("add_constraint", jnts, "constraint")
BuildLog(bodies, jnts) ==
    Stored("store_body", bodies)
    \o Events("add_rigid_body", bodies, "bullet_body")
    \o Stored("store_joint", jnts)
    \o Events("add_constraint", jnts, "constraint")

\* impl Drop: remove the constraints (446-450), remove the bodies (451-455);
\* then the fields are dropped in declaration order: joints, rigid_bodies,
\* world (lines 25-29)
DropLog_BodiesFirst(bodies, jnts) ==
    Events("remove_rigid_body", bodies, "bullet_body")
    \o Events("remove_constraint", jnts, "constraint")
    \o Events("destroy_constraint", jnts, "constraint")
    \o Events("destroy_body", bodies, "bullet_body")
    \o <<<<"destroy_world", 0>>>>
DropLog(bodies, jnts) ==
    Events("remove_constraint", jnts, "constraint")
    \o Events("remove_rigid_body", bodies, "bullet_body")
    \o Events("destroy_constraint", jnts, "constraint")
    \o Events("destroy_body", bodies, "bullet_body")
    \o <<<<"destroy_world", 0>>>>

Handles(s, field) == {s[i][field][1] : i \in {k \in 1..Len(s) : s[k][field] # None}}

\* A Mat4: where its rotation and its position come from (bone k of the
\* caller: k; the engine's body i: 10 + i), its handedness, and the rest
\* offset of a body it carries (0: none)
Mat(rot, pos, hand, offset) == [rot |-> rot, pos |-> pos, hand |-> hand, offset |-> offset]
\* inv_z: the Z negation that changes the handedness
InvZ(m) == [m EXCEPT !.hand = IF m.hand = "right" THEN "left" ELSE "right"]
\* body.get_transform(): the engine's left-hand transform of body i
GetTransform(i) == Mat(10 + i, 10 + i, "left", i)
\* compute_body_matrix: bone matrix times the rest offset of body i
ComputeBodyMatrix(i, bone_left) == [bone_left EXCEPT !.offset = i]
\* compute_bone_matrix: body transform times the inverse rest offset
ComputeBoneMatrix(rb_matrix) == [rb_matrix EXCEPT !.offset = 0]
\* compute_bone_matrix_rotation_only: the body's rotation at the given position
ComputeBoneMatrixRotationOnly(rb_matrix, pos_left) ==
    [rb_matrix EXCEPT !.pos = pos_left, !.offset = 0]
\* the caller's bone array: bone k in right-hand space
BoneArrays == { [k \in 1..n |-> Mat(k, k, "right", 0)] : n \in 1..2 }

\* lines 159-162: bone indices of the bodies that are not bone followers
DynamicBoneIndices(bodies) ==
    { AsUsize(bodies[i].bone_index) :
        i \in { k \in 1..Len(bodies) :
                  bodies[k].physics_mode # "FollowBone" /\ bodies[k].bone_index >= 0 } }

\* sync_bodies, lines 187-201: the set_transform calls, in order
RECURSIVE SetTransformCalls(_, _, _)
SetTransformCalls(bodies, bone_transforms, i) ==
    IF i > Len(bodies) THEN <<>>
    ELSE (IF bodies[i].physics_mode # "FollowBone"
              \/ bodies[i].bone_index < 0
              \/ AsUsize(bodies[i].bone_index) >= Len(bone_transforms)
              \/ bodies[i].bullet_body = None
          THEN <<>>
          ELSE << [body |-> i,
                   matrix |-> ComputeBodyMatrix(i, InvZ(bone_transforms[bodies[i].bone_index + 1]))] >>)
         \o SetTransformCalls(bodies, bone_transforms, i + 1)

\* the bone matrix that body i gives, lines 331-347 and 410-423
NewBoneLeft(body, i, bone_right) ==
    IF body.physics_mode = "Physics" THEN ComputeBoneMatrix(GetTransform(i))
    ELSE ComputeBoneMatrixRotationOnly(GetTransform(i), bone_right.pos)
\* the test that sync_bones and get_dynamic_bone_transforms make on a body
Dynamic_AnyMode(body, bone_count) ==
    /\ ~(body.bone_index < 0 \/ AsUsize(body.bone_index) >= bone_count)
    /\ body.bullet_body # None
Dynamic(body, bone_count) ==
    /\ body.physics_mode # "FollowBone"
    /\ ~(body.bone_index < 0 \/ AsUsize(body.bone_index) >= bone_count)
    /\ body.bullet_body # None

\* sync_bones, lines 322-351: the array after the loop from body i on
RECURSIVE SyncBonesLoop(_, _, _)
SyncBonesLoop(bodies, bone_transforms, i) ==
    IF i > Len(bodies) THEN bone_transforms
    ELSE SyncBonesLoop(bodies,
             IF Dynamic(bodies[i], Len(bone_transforms))
             THEN [bone_transforms EXCEPT ![bodies[i].bone_index + 1] =
                      InvZ(NewBoneLeft(bodies[i], i, bone_transforms[bodies[i].bone_index + 1]))]
             ELSE bone_transforms,
             i + 1)

\* get_dynamic_bone_transforms, lines 400-427: dynamic_bone_buf
RECURSIVE DynamicBoneBuf(_, _, _)
DynamicBoneBuf(bodies, current_bone_transforms, i) ==
    IF i > Len(bodies) THEN <<>>
    ELSE (IF Dynamic(bodies[i], Len(current_bone_transforms))
          THEN << <<AsUsize(bodies[i].bone_index),
                    InvZ(NewBoneLeft(bodies[i], i,
                                     current_bone_transforms[bodies[i].bone_index + 1]))>> >>
          ELSE <<>>)
         \o DynamicBoneBuf(bodies, current_bone_transforms, i + 1)

NoSync == [op |-> "none", before |-> <<>>, after |-> <<>>, set_transform |-> <<>>, ret |-> <<>>]

\* MMDPhysics::new
PhInit ==
    /\ phase = "created"
    /\ rigid_bodies = <<>>
    /\ joints = <<>>
    /\ world = [bodies |-> {}, constraints |-> {}, alive |-> TRUE]
    /\ ffi_log = <<>>
    /\ build_args = None
    /\ dynamic_bone_indices = {}
    /\ sync_call = NoSync

\* what build_physics leaves for its arguments and the joints_enabled it read
Built(pmx_rigid_bodies, pmx_joints, joints_enabled) ==
    LET bodies == MakeBodies(pmx_rigid_bodies)
        jnts == MakeJoints(pmx_joints, bodies, joints_enabled)
    IN  /\ rigid_bodies' = bodies
        /\ joints' = jnts
        /\ world' = [world EXCEPT !.bodies = Handles(bodies, "bullet_body"),
                                  !.constraints = Handles(jnts, "constraint")]
        /\ ffi_log' = ffi_log \o BuildLog(bodies, jnts)
        /\ build_args' = Some([pmx_rigid_bodies |-> pmx_rigid_bodies,
                               pmx_joints |-> pmx_joints,
                               joints_enabled |-> joints_enabled])
        /\ dynamic_bone_indices' = DynamicBoneIndices(bodies)
        /\ phase' = "built"

\* build_physics(pmx_rigid_bodies, pmx_joints, bone_transforms)
BuildPhysics ==
    /\ phase = "created"
    /\ \E pmx_rigid_bodies \in SeqsUpTo(PmxBodies, MaxBodies),
          pmx_joints \in SeqsUpTo(PmxJoints, MaxJoints),
          joints_enabled \in BOOLEAN :
           Built(pmx_rigid_bodies, pmx_joints, joints_enabled)
    /\ UNCHANGED sync_call
    /\ UNCHANGED phOthers

\* build_physics of a model without joints
BuildBodies ==
    /\ phase = "created"
    /\ \E pmx_rigid_bodies \in SeqsUpTo(PmxBodies, MaxBodies), joints_enabled \in BOOLEAN :
           Built(pmx_rigid_bodies, <<>>, joints_enabled)
    /\ UNCHANGED sync_call
    /\ UNCHANGED phOthers

\* the bridge goes out of scope: Drop::drop, then the field drops
DropPhysics ==
    /\ phase \in {"created", "built"}
    /\ ffi_log' = ffi_log \o DropLog(rigid_bodies, joints)
    /\ world' = [bodies |-> {}, constraints |-> {}, alive |-> FALSE]
    /\ phase' = "dropped"
    /\ UNCHANGED <<rigid_bodies, joints, build_args, dynamic_bone_indices, sync_call>>
    /\ UNCHANGED phOthers

\* sync_bodies(bone_transforms)
SyncBodies ==
    /\ phase \in {"created", "built"}
    /\ \E bone_transforms \in BoneArrays :
         sync_call' = [op |-> "sync_bodies", before |-> bone_transforms,
                       after |-> bone_transforms,
                       set_transform |-> SetTransformCalls(rigid_bodies, bone_transforms, 1),
                       ret |-> <<>>]
    /\ UNCHANGED <<phase, rigid_bodies, joints, world, ffi_log, build_args, dynamic_bone_indices>>
    /\ UNCHANGED phOthers

\* sync_bones(bone_transforms)
SyncBones ==
    /\ phase \in {"created", "built"}
    /\ \E bone_transforms \in BoneArrays :
         sync_call' = [op |-> "sync_bones", before |-> bone_transforms,
                       after |-> SyncBonesLoop(rigid_bodies, bone_transforms, 1),
                       set_transform |-> <<>>, ret |-> <<>>]
    /\ UNCHANGED <<phase, rigid_bodies, joints, world, ffi_log, build_args, dynamic_bone_indices>>
    /\ UNCHANGED phOthers

\* get_dynamic_bone_transforms(current_bone_transforms)
GetDynamicBoneTransforms ==
    /\ phase \in {"created", "built"}
    /\ \E current_bone_transforms \in BoneArrays :
         sync_call' = [op |-> "get_dynamic_bone_transforms", before |-> current_bone_transforms,
                       after |-> current_bone_transforms, set_transform |-> <<>>,
                       ret |-> DynamicBoneBuf(rigid_bodies, current_bone_transforms, 1)]
    /\ UNCHANGED <<phase, rigid_bodies, joints, world, ffi_log, build_args, dynamic_bone_indices>>
    /\ UNCHANGED phOthers

PhNext ==
    \/ BuildPhysics
    \/ DropPhysics

\* the per-frame calls on the bridge of a model without joints
PhSyncNext ==
    \/ BuildBodies
    \/ SyncBodies
    \/ SyncBones
    \/ GetDynamicBoneTransforms

(***************************************************************************)
(* mmd-rs pmx/reader/{display_frame,rigid_body,joint}.rs                   *)
(***************************************************************************)
Sections == <<"display_frame", "rigid_body", "joint">>

\* the i32 a section header announces
Counts == -1..MaxRecords

\* what the stream holds at the place of one record.  io = "eof" stands for a
\* read that fails (truncated input); the codes are the enum bytes read
Records(section) ==
    CASE section = "rigid_body" ->
            [io : {"ok", "eof"}, shape : {0, 2, 3}, mode : {0, 2, 3}]
      [] section = "joint" ->
            [io : {"ok", "eof"}, type_ : {0, 5, 6}]
      [] section = "display_frame" ->
            [io : {"ok", "eof"}, index_fits : BOOLEAN]

\* rigid_body.rs lines 52-57 and 81-86: the accepted shape and mode codes
ValidShape_Any(code) == code \in 0..255
ValidShape(code) == code \in {0, 1, 2}
ValidMode(code) == code \in {0, 1, 2}
\* joint.rs lines 65-73
ValidJointType(code) == code \in 0..5

\* next_impl past the remaining check: Ok(Some(record)) or Err
Decode(section, rec) ==
    IF rec.io = "eof" THEN "Err"
    ELSE CASE section = "rigid_body" ->
                 IF ValidShape(rec.shape) /\ ValidMode(rec.mode) THEN "Some" ELSE "Err"
           [] section = "joint" ->
                 IF ValidJointType(rec.type_) THEN "Some" ELSE "Err"
           [] section = "display_frame" ->
                 IF rec.index_fits THEN "Some" ELSE "Err"

\* next(): `if result.is_err() { self.poison = true; }`
PoisonAfter_Never(poison, res) == poison
PoisonAfter(poison, res) == poison \/ res = "Err"

\* one next() call on reader state r with the stream holding rec:
\* the new reader state and the result of the call
NextCall(section, r, rec) ==
    IF r.poison
    THEN [reader |-> r, res |-> "panic", rec |-> None]
    ELSE IF r.remaining <= 0
         THEN [reader |-> r, res |-> "None", rec |-> None]
         ELSE LET res == Decode(section, rec) IN
              [reader |-> [r EXCEPT !.remaining = r.remaining - 1,
                                    !.poison = PoisonAfter(r.poison, res)],
               res |-> res, rec |-> Some(rec)]

Entry(c) == [res |-> c.res, rec |-> c.rec]

\* new(): `while previous.remaining > 0 { previous.next()?; }` over the
\* records recs the stream holds; the previous reader's final state, the
\* results of its next() calls and whether the loop was left by `?`
RECURSIVE Drain(_, _, _, _)
Drain(section, r, recs, hist) ==
    IF r.remaining <= 0 \/ recs = <<>>
    THEN [reader |-> r, hist |-> hist, failed |-> FALSE]
    ELSE LET c == NextCall(section, r, Head(recs)) IN
         IF c.res = "Err"
         THEN [reader |-> c.reader, hist |-> Append(hist, Entry(c)), failed |-> TRUE]
         ELSE Drain(section, c.reader, Tail(recs), Append(hist, Entry(c)))

Absent == [state |-> "absent", count |-> 0, remaining |-> 0, poison |-> FALSE]

Live(count) == [state |-> "live", count |-> count, remaining |-> count, poison |-> FALSE]

\* the state after DisplayFrameReader::new returned Ok
RdInit ==
    /\ \E count \in Counts :
           readers = [x \in {"display_frame", "rigid_body", "joint"} |->
                         IF x = "display_frame" THEN Live(count) ELSE Absent]
    /\ history = [x \in {"display_frame", "rigid_body", "joint"} |-> <<>>]
    /\ nops = 0

RdIdle ==
    /\ readers = [x \in {"display_frame", "rigid_body", "joint"} |-> Absent]
    /\ history = [x \in {"display_frame", "rigid_body", "joint"} |-> <<>>]
    /\ nops = 0

\* reader.next::<C>() on the reader of a section
ReaderNext(section) ==
    /\ readers[section].state = "live"
    /\ nops < MaxOps
    /\ \E rec \in Records(section) :
           LET c == NextCall(section, readers[section], rec) IN
               /\ readers' = [readers EXCEPT ![section] = c.reader]
               /\ history' = [history EXCEPT ![section] = Append(@, Entry(c))]
    /\ nops' = nops + 1
    /\ UNCHANGED rdOthers

\* RigidBodyReader::new(previous) / JointReader::new(previous): the previous
\* reader is moved into the call; a panic or an Err drops it.  count is the
\* result of read_i32 on the header of the new section (None: the read fails)
ReaderNew(k) ==
    LET prev == Sections[k]
        section == Sections[k + 1]
        p == readers[prev]
    IN  /\ p.state = "live"
        /\ readers[section].state = "absent"
        /\ nops < MaxOps
        /\ nops' = nops + 1
        /\ IF p.poison
           THEN \* assert!(!previous.poison) fails
                /\ readers' = [readers EXCEPT ![prev].state = "dropped"]
                /\ UNCHANGED history
           ELSE \E recs \in SeqsUpTo(Records(prev), Max(p.remaining, 0)),
                   count \in {None} \cup {Some(n) : n \in Counts} :
                    LET d == Drain(prev, p, recs, history[prev]) IN
                        /\ Len(recs) = Max(p.remaining, 0)
                        /\ history' = [history EXCEPT ![prev] = d.hist]
                        /\ IF d.failed \/ count = None
                           THEN readers' = [readers EXCEPT
                                               ![prev] = [d.reader EXCEPT !.state = "dropped"]]
                           ELSE readers' = [readers EXCEPT
                                               ![prev] = [d.reader EXCEPT !.state = "moved"],
                                               ![section] = Live(count[1])]
        /\ UNCHANGED rdOthers

RdNext ==
    \/ \E section \in {"display_frame", "rigid_body", "joint"} : ReaderNext(section)
    \/ \E k \in 1..2 : ReaderNew(k)

(***************************************************************************)
(* morph/manager.rs                                                        *)
(***************************************************************************)
\* f32 weights are modelled exactly as dyadic numbers <<n, e>> = n / 2^e
\* with n in {-1, 0, 1}; products of such numbers are exact in f32
Dy(n, e) == IF n = 0 THEN <<0, 0>> ELSE <<n, e>>
DyMul(a, b) == Dy(a[1] * b[1], a[2] + b[2])

\* 0.001 lies between 2^-10 and 2^-9
WeightCutExp == 10
\* weight.abs() < 0.001
AbsBelowCut(w) == w[1] = 0 \/ w[2] >= WeightCutExp
\* weight.abs() > 0.001
AbsAboveCut(w) == w[1] # 0 /\ w[2] < WeightCutExp

\* the recursion limit of apply_single_morph
MaxMorphDepth == 16
TooDeep_17(depth) == depth > MaxMorphDepth + 1
TooDeep(depth) == depth > MaxMorphDepth

\* a morph set with a cycle of len Group/Flip morphs 0 -> 1 -> .. -> len-1 -> 0
\* (len = 1: a morph that names itself) and a Vertex morph at index len.
\* Every group also names the Vertex morph, an index that is negative and one
\* past the end; twice: the cycle edge is listed twice
GroupOffsets(i, len, influence, twice) ==
    LET edge == [morph_index |-> (i + 1) % len, influence |-> influence] IN
        <<edge>> \o (IF twice THEN <<edge>> ELSE <<>>) \o
        << [morph_index |-> len, influence |-> Dy(1, 0)],
           [morph_index |-> -1, influence |-> Dy(1, 0)],
           [morph_index |-> len + 1, influence |-> Dy(1, 0)] >>

MorphSet(len, influence, twice, weights) ==
    [k \in 1..len + 1 |->
        IF k = len + 1
        THEN [morph_type |-> "Vertex", weight |-> weights[k], group_offsets |-> <<>>]
        ELSE [morph_type |-> IF k % 2 = 1 THEN "Group" ELSE "Flip",
              weight |-> weights[k],
              group_offsets |-> GroupOffsets(k - 1, len, influence, twice)]]

\* apply_morphs lines 291-294: (index, weight) of every morph with |weight| > 0.001
RECURSIVE CollectActive(_, _)
CollectActive(ms, k) ==
    IF k > Len(ms) THEN <<>>
    ELSE (IF AbsAboveCut(ms[k].weight) THEN <<<<k - 1, ms[k].weight>>>> ELSE <<>>)
         \o CollectActive(ms, k + 1)

Frame(morph_idx, weight, depth) ==
    [morph_idx |-> morph_idx, effective_weight |-> weight, depth |-> depth, sub |-> 0]

Pop(stack) == SubSeq(stack, 1, Len(stack) - 1)
Top(stack) == stack[Len(stack)]

\* line 345: the weight a sub entry is applied with
SubWeight_Influence(effective_weight, influence) == influence
SubWeight(effective_weight, influence) == DyMul(effective_weight, influence)

\* a model loaded into the manager, weights set by set_morph_weight.  The
\* cycle edge is listed twice only with influence 1/4 (a walk of 2^5 calls;
\* with influence 1 it has 2^17)
MoInit ==
    /\ \E len \in 1..MaxCycle, influence \in {Dy(1, 0), Dy(1, 1), Dy(-1, 0), Dy(1, 2)},
          twice \in BOOLEAN,
          weights \in [1..MaxCycle + 1 -> {Dy(0, 0), Dy(1, 0), Dy(1, WeightCutExp)}] :
           /\ twice <=> influence = Dy(1, 2)
           /\ \A k \in 2..MaxCycle + 1 : weights[k] # Dy(1, WeightCutExp)
           /\ \A k \in len + 2..MaxCycle + 1 : weights[k] = Dy(0, 0)
           /\ morphs = MorphSet(len, influence, twice, weights)
    /\ mpc = "idle"
    /\ active_morphs = <<>>
    /\ mstack = <<>>
    /\ processed = {}
    /\ applied = <<>>

MoIdle ==
    /\ morphs = <<>>
    /\ mpc = "idle"
    /\ active_morphs = <<>>
    /\ mstack = <<>>
    /\ processed = {}
    /\ applied = <<>>

\* apply_morphs is entered: lines 281-294
ApplyMorphs ==
    /\ mpc \in {"idle", "done"}
    /\ mpc' = "run"
    /\ active_morphs' = CollectActive(morphs, 1)
    /\ mstack' = <<>>
    /\ processed' = {}
    /\ applied' = <<>>
    /\ UNCHANGED morphs
    /\ UNCHANGED moOthers

\* the loop of lines 296-298 calls apply_single_morph(morph_idx, weight, .., 0)
ApplyTopLevel ==
    /\ mpc = "run" /\ mstack = <<>> /\ active_morphs # <<>>
    /\ mstack' = <<Frame(Head(active_morphs)[1], Head(active_morphs)[2], 0)>>
    /\ active_morphs' = Tail(active_morphs)
    /\ UNCHANGED <<morphs, mpc, processed, applied>>
    /\ UNCHANGED moOthers

\* apply_morphs returns
ApplyMorphsReturn ==
    /\ mpc = "run" /\ mstack = <<>> /\ active_morphs = <<>>
    /\ mpc' = "done"
    /\ UNCHANGED <<morphs, active_morphs, mstack, processed, applied>>
    /\ UNCHANGED moOthers

\* apply_single_morph from its entry to the dispatch, lines 311-359: the
\* guards return; a Vertex morph is applied and returns; a Group/Flip morph
\* starts its loop over group_offsets
ApplySingleMorph ==
    /\ mpc = "run" /\ mstack # <<>> /\ Top(mstack).sub = 0
    /\ LET f == Top(mstack) IN
       IF TooDeep(f.depth) \/ AbsBelowCut(f.effective_weight)
            \/ f.morph_idx + 1 > Len(morphs)
       THEN /\ mstack' = Pop(mstack)
            /\ UNCHANGED <<processed, applied>>
       ELSE /\ processed' = processed \cup {<<f.morph_idx, f.depth>>}
            /\ IF morphs[f.morph_idx + 1].morph_type \in {"Group", "Flip"}
               THEN /\ mstack' = [mstack EXCEPT ![Len(mstack)].sub = 1]
                    /\ UNCHANGED applied
               ELSE /\ mstack' = Pop(mstack)
                    /\ applied' = Append(applied, [morph_idx |-> f.morph_idx,
                                                   weight |-> f.effective_weight])
    /\ UNCHANGED <<morphs, mpc, active_morphs>>
    /\ UNCHANGED moOthers

\* one round of `for sub in &group_offsets`, lines 342-348
GroupLoop ==
    /\ mpc = "run" /\ mstack # <<>> /\ Top(mstack).sub > 0
    /\ LET f == Top(mstack)
           subs == morphs[f.morph_idx + 1].group_offsets
       IN  IF f.sub > Len(subs)
           THEN mstack' = Pop(mstack)
           ELSE LET sub == subs[f.sub]
                    sub_idx == AsUsize(sub.morph_index)
                    advanced == [mstack EXCEPT ![Len(mstack)].sub = f.sub + 1]
                IN  IF sub_idx < Len(morphs) /\ sub_idx # f.morph_idx
                    THEN mstack' = Append(advanced,
                             Frame(sub_idx, SubWeight(f.effective_weight, sub.influence), f.depth + 1))
                    ELSE mstack' = advanced
    /\ UNCHANGED <<morphs, mpc, active_morphs, processed, applied>>
    /\ UNCHANGED moOthers

MoNext ==
    \/ ApplyMorphs
    \/ ApplyTopLevel
    \/ ApplyMorphsReturn
    \/ ApplySingleMorph
    \/ GroupLoop

(***************************************************************************)
(* skeleton/ik_solver.rs, skeleton/bone_link.rs                            *)
(***************************************************************************)
\* Rotations are the quarter turns about one axis, 0..3 (Quat::IDENTITY = 0,
\* product = sum); positions are points of the integer plane.
Quats == 0..3
QuatMul(a, b) == (a + b) % 4
QuatInverse(a) == (4 - a) % 4
\* rotation r applied to the vector v
Rotate(r, v) ==
    CASE r = 0 -> v
      [] r = 1 -> <<0 - v[2], v[1]>>
      [] r = 2 -> <<0 - v[1], 0 - v[2]>>
      [] r = 3 -> <<v[2], 0 - v[1]>>
\* Mat4 * Mat4 for rigid transforms [rot, pos]
MatMul(a, b) ==
    [rot |-> QuatMul(a.rot, b.rot),
     pos |-> <<a.pos[1] + Rotate(a.rot, b.pos)[1], a.pos[2] + Rotate(a.rot, b.pos)[2]>>]
MatIdentity == [rot |-> 0, pos |-> <<0, 0>>]

\* BoneLink::compute_local_transform (no animation or append translation here)
ComputeLocalTransform(b) ==
    LET rotation == IF b.ik_enabled THEN QuatMul(b.ik_rotate, b.animation_rotate)
                    ELSE b.animation_rotate
    IN  [b EXCEPT !.local_to_parent = [rot |-> rotation, pos |-> b.body_shift]]

\* children[i] of the bone set, in index order (0-based indices)
RECURSIVE ChildrenOf(_, _, _)
ChildrenOf(bs, idx, k) ==
    IF k > Len(bs) THEN <<>>
    ELSE (IF bs[k].parent_index = idx THEN <<k - 1>> ELSE <<>>) \o ChildrenOf(bs, idx, k + 1)
ChildrenCache(bs) == [i \in 1..Len(bs) |-> ChildrenOf(bs, i - 1, 1)]

\* IkSolver::update_global_transform_recursive
RECURSIVE UpdateGlobalTransformRecursive(_, _, _)
RECURSIVE UpdateChildren(_, _, _, _)
UpdateGlobalTransformRecursive(bs, children_cache, idx) ==
    IF idx >= Len(bs) THEN bs
    ELSE LET parent_idx == bs[idx + 1].parent_index
             parent_global == IF parent_idx >= 0 /\ AsUsize(parent_idx) < Len(bs)
                              THEN bs[parent_idx + 1].local_to_world
                              ELSE MatIdentity
             b1 == [bs EXCEPT ![idx + 1].local_to_world =
                                  MatMul(parent_global, bs[idx + 1].local_to_parent)]
         IN  IF idx < Len(children_cache)
             THEN UpdateChildren(b1, children_cache, children_cache[idx + 1], 1)
             ELSE b1
UpdateChildren(bs, children_cache, kids, k) ==
    IF k > Len(kids) THEN bs
    ELSE UpdateChildren(UpdateGlobalTransformRecursive(bs, children_cache, kids[k]),
                        children_cache, kids, k + 1)

\* a link gets a new ik_rotate, then compute_local_transform and the update
\* of its subtree (ik_solver.rs 86-87, 113-115, 213-215)
SetIkRotate_LinkOnly(bs, link_idx, q) ==
    LET b == ComputeLocalTransform([bs[link_idx + 1] EXCEPT !.ik_rotate = q])
        parent_global == IF b.parent_index >= 0 /\ AsUsize(b.parent_index) < Len(bs)
                         THEN bs[b.parent_index + 1].local_to_world
                         ELSE MatIdentity
    IN  [bs EXCEPT ![link_idx + 1] =
            [b EXCEPT !.local_to_world = MatMul(parent_global, b.local_to_parent)]]
SetIkRotate(bs, link_idx, q) ==
    UpdateGlobalTransformRecursive(
        [bs EXCEPT ![link_idx + 1] =
            ComputeLocalTransform([bs[link_idx + 1] EXCEPT !.ik_rotate = q])],
        ChildrenCache(bs), link_idx)

TargetIdx == AsUsize(solver.config.target_bone)
\* the bone index of every IkLink
Links == [i \in 1..Len(solver.config.links) |-> solver.config.links[i].bone_index]

\* (target_pos - ik_pos).length(), squared: the order of two lengths is the
\* order of their squares
Distance(bs) ==
    LET t == bs[TargetIdx + 1].local_to_world.pos
        k == bs[solver.bone_index + 1].local_to_world.pos
    IN  (t[1] - k[1]) * (t[1] - k[1]) + (t[2] - k[2]) * (t[2] - k[2])

\* f32::MAX: above every distance of the skeletons of IkInit
F32_MAX == 1000000

\* a set-up that recomputes the transforms and keeps every link's ik_rotate
RECURSIVE InitChain_KeepRotation(_, _)
InitChain_KeepRotation(bs, k) ==
    IF k > Len(Links) THEN bs
    ELSE LET link_idx == AsUsize(Links[k]) IN
         InitChain_KeepRotation(
             IF link_idx < Len(bs)
             THEN SetIkRotate([bs EXCEPT ![link_idx + 1].ik_enabled = TRUE], link_idx,
                              bs[link_idx + 1].ik_rotate)
             ELSE bs, k + 1)
\* solve lines 80-88: every link starts from the identity
RECURSIVE InitChain(_, _)
InitChain(bs, k) ==
    IF k > Len(Links) THEN bs
    ELSE LET link_idx == AsUsize(Links[k]) IN
         InitChain(IF link_idx < Len(bs)
                   THEN SetIkRotate([bs EXCEPT ![link_idx + 1].ik_enabled = TRUE], link_idx, 0)
                   ELSE bs, k + 1)

\* f32::clamp(min, max) panics when min > max
ClampPanics(min, max) == min > max
ClampF32(x, min, max) == Max(min, Min(x, max))

\* angles are whole quarter turns; Quat::from_axis_angle about the one axis
QuatFromAngle(angle) == ((angle % 4) + 4) % 4
\* the Euler angle of a rotation, in (-2, 2]
EulerOf(q) == IF q = 3 THEN -1 ELSE q

\* detect_plane_solve_axis: the axis has a nonzero limit and the limits of
\* the other two axes are exactly zero
DetectPlaneSolveAxis(link) ==
    (link.limit_min # 0 \/ link.limit_max # 0) /\ link.others_zero

\* the link-local position of the IK bone or of the target is the zero
\* vector: normalize_or_zero gives zero and the link is left alone
Degenerate(bs, link_idx) ==
    \/ bs[solver.bone_index + 1].local_to_world.pos = bs[link_idx + 1].local_to_world.pos
    \/ bs[TargetIdx + 1].local_to_world.pos = bs[link_idx + 1].local_to_world.pos

\* the state one inner pass works on
Pass(bs, cs, panicked) == [bones |-> bs, chain_states |-> cs, panicked |-> panicked]
Panicked(st) == [st EXCEPT !.panicked = TRUE]

FirstIterationAngle_NoMirror(new_angle, limit_min, limit_max) == new_angle
\* solve_plane lines 272-287: on iteration 0 an angle outside the limits is
\* mirrored when the mirror image is inside, or when it is nearer to the middle
FirstIterationAngle(new_angle, limit_min, limit_max) ==
    IF new_angle < limit_min \/ new_angle > limit_max
    THEN IF 0 - new_angle > limit_min /\ 0 - new_angle < limit_max
         THEN 0 - new_angle
         ELSE LET twice_half == limit_min + limit_max
                  far == twice_half - 2 * new_angle
                  near == twice_half + 2 * new_angle
              IN  IF Max(far, 0 - far) > Max(near, 0 - near) THEN 0 - new_angle ELSE new_angle
    ELSE new_angle

\* solve_plane from the angle on, lines 256-306: angle0 is acos(dot),
\* positive tells whether dot_pos > dot_neg
SolvePlane(st, chain_idx, iter, angle0, positive) ==
    LET link == solver.config.links[chain_idx]
        link_idx == AsUsize(link.bone_index)
        limit_angle == solver.config.limit_angle
    IN  IF ClampPanics(0 - limit_angle, limit_angle) THEN Panicked(st)
        ELSE LET angle == ClampF32(angle0, 0 - limit_angle, limit_angle)
                 moved == st.chain_states[chain_idx].plane_mode_angle
                            + (IF positive THEN angle ELSE 0 - angle)
                 first == IF iter = 0
                          THEN FirstIterationAngle(moved, link.limit_min, link.limit_max)
                          ELSE moved
             IN  IF ClampPanics(link.limit_min, link.limit_max) THEN Panicked(st)
                 ELSE LET new_angle == ClampF32(first, link.limit_min, link.limit_max) IN
                      Pass(SetIkRotate(st.bones, link_idx,
                               QuatMul(QuatFromAngle(new_angle),
                                       QuatInverse(st.bones[link_idx + 1].animation_rotate))),
                           [st.chain_states EXCEPT ![chain_idx].plane_mode_angle = new_angle,
                                                   ![chain_idx].plane_input = Some(<<iter, moved>>)],
                           FALSE)

\* the three-axis branch of solve_iteration from the angle clamp on, lines
\* 173-215: chain_rot is ik_rotate * animation_rotate * delta_rot
SolveGeneral(st, chain_idx, chain_rot) ==
    LET link == solver.config.links[chain_idx]
        link_idx == AsUsize(link.bone_index)
        limit_angle == solver.config.limit_angle
        prev_angle == st.chain_states[chain_idx].prev_angle
        anim_inv == QuatInverse(st.bones[link_idx + 1].animation_rotate)
    IN  IF ClampPanics(0 - limit_angle, limit_angle) THEN Panicked(st)
        ELSE IF ~link.has_limits
        THEN Pass(SetIkRotate(st.bones, link_idx, QuatMul(chain_rot, anim_inv)),
                  st.chain_states, FALSE)
        ELSE IF ClampPanics(link.limit_min, link.limit_max) THEN Panicked(st)
        ELSE LET euler == ClampF32(EulerOf(chain_rot), link.limit_min, link.limit_max)
                 clamped == ClampF32(euler - prev_angle, 0 - limit_angle, limit_angle) + prev_angle
             IN  Pass(SetIkRotate(st.bones, link_idx, QuatMul(QuatFromAngle(clamped), anim_inv)),
                      [st.chain_states EXCEPT ![chain_idx].prev_angle = clamped,
                                              ![chain_idx].prev_before = Some(prev_angle)],
                      FALSE)

\* what solve_iteration can do with one link that is in range and not the
\* target.  The vector arithmetic is not computed: a hinge link is left alone
\* exactly when a vector is zero and otherwise turns by any angle 0..2 in
\* either direction; another link may also be left alone by the guards on
\* the angle and the axis, and otherwise gets any chain_rot
LinkStep(st, chain_idx, iter) ==
    LET link == solver.config.links[chain_idx]
        link_idx == AsUsize(link.bone_index)
    IN  IF link.has_limits /\ DetectPlaneSolveAxis(link)
        THEN IF Degenerate(st.bones, link_idx) THEN {st}
             ELSE { SolvePlane(st, chain_idx, iter, angle0, positive) :
                      angle0 \in 0..2, positive \in BOOLEAN }
        ELSE {st} \cup
             (IF Degenerate(st.bones, link_idx) THEN {}
              ELSE { SolveGeneral(st, chain_idx, chain_rot) : chain_rot \in Quats })

\* solve_iteration: the set of states one inner pass can leave; a panic
\* ends the pass
RECURSIVE SolveIteration(_, _, _)
SolveIteration(st, chain_idx, iter) ==
    IF st.panicked \/ chain_idx > Len(Links) THEN {st}
    ELSE LET link_idx == AsUsize(Links[chain_idx]) IN
         IF link_idx >= Len(st.bones) \/ link_idx = TargetIdx
         THEN SolveIteration(st, chain_idx + 1, iter)
         ELSE UNION { SolveIteration(s2, chain_idx + 1, iter) :
                        s2 \in LinkStep(st, chain_idx, iter) }

Improves(distance, best) == distance < best

\* lines 100-106: chain_states[i].best_ik_rotate = bones[link_idx].ik_rotate
SaveBest(bs, cs) ==
    [i \in 1..Len(Links) |->
        IF AsUsize(Links[i]) < Len(bs)
        THEN [cs[i] EXCEPT !.best_ik_rotate = bs[AsUsize(Links[i]) + 1].ik_rotate]
        ELSE cs[i]]

\* lines 109-116: every link goes back to its best_ik_rotate
RECURSIVE RestoreFrom(_, _, _)
RestoreFrom(bs, cs, i) ==
    IF i > Len(Links) THEN bs
    ELSE LET link_idx == AsUsize(Links[i]) IN
         RestoreFrom(IF link_idx < Len(bs)
                     THEN SetIkRotate(bs, link_idx, cs[i].best_ik_rotate) ELSE bs,
                     cs, i + 1)
RestoreBest_Keep(bs, cs) == bs
RestoreBest(bs, cs) == RestoreFrom(bs, cs, 1)

IkRotates(bs) == [i \in 1..Len(bs) |-> bs[i].ik_rotate]

\* a bone as the skeleton leaves it before the IK pass: transforms computed
\* from the animation, world transforms propagated parents first
Bone(parent_index, body_shift, animation_rotate, ik_rotate) ==
    ComputeLocalTransform(
        [parent_index |-> parent_index, body_shift |-> body_shift,
         animation_rotate |-> animation_rotate, ik_rotate |-> ik_rotate,
         ik_enabled |-> FALSE, local_to_parent |-> MatIdentity, local_to_world |-> MatIdentity])

\* bones 0 and 1 are the arm, bone 2 its tip (the usual target), bone 3 the IK bone
Skeleton(anim, link_anim, stale, goal) ==
    LET bs == << Bone(-1, <<0, 0>>, anim, stale),
                 Bone(0, <<1, 0>>, link_anim, stale),
                 Bone(1, <<1, 0>>, 0, 0),
                 Bone(-1, goal, 0, 0) >>
    IN  UpdateGlobalTransformRecursive(
            UpdateGlobalTransformRecursive(bs, ChildrenCache(bs), 0), ChildrenCache(bs), 3)

\* an IkLink without limits, and one with limits on the axis
Unlimited(bone_index) ==
    [bone_index |-> bone_index, has_limits |-> FALSE, limit_min |-> 0, limit_max |-> 0,
     others_zero |-> TRUE]
Limited(bone_index, limit_min, limit_max, others_zero) ==
    [bone_index |-> bone_index, has_limits |-> TRUE, limit_min |-> limit_min,
     limit_max |-> limit_max, others_zero |-> others_zero]

\* IkConfig.links without limits: tip first, root first, one link, a link
\* listed twice, a link that is the target, an index out of range, -1
LinkLists ==
    { << Unlimited(1), Unlimited(0) >>, << Unlimited(0), Unlimited(1) >>, << Unlimited(1) >>,
      << Unlimited(1), Unlimited(1) >>, << Unlimited(2), Unlimited(0) >>,
      << Unlimited(1), Unlimited(4) >>, << Unlimited(-1), Unlimited(0) >> }
\* IkConfig.links with a limited link: a hinge with limits -2..0 (-pi..0), a
\* hinge whose limits are inverted, a three-axis link, a three-axis link
\* whose limits are inverted, a hinge with limits 0..1 and a three-axis link
\* with limits 2..2, which do not contain the rest angle
LimitedLinkLists ==
    { << Limited(1, -2, 0, TRUE), Unlimited(0) >>, << Limited(1, 1, -1, TRUE), Unlimited(0) >>,
      << Limited(1, -1, 1, FALSE), Unlimited(0) >>, << Limited(1, 1, -1, FALSE), Unlimited(0) >>,
      << Limited(1, 0, 1, TRUE), Unlimited(0) >>, << Limited(1, 2, 2, FALSE), Unlimited(0) >> }
Goals == { <<0, 2>>, <<-2, 0>>, <<1, 1>>, <<2, 0>>, <<1, 0>> }
\* IkConfig.limit_angle
LimitAngles == {2, 1, -1}

IkConfigured(max_iterations) ==
    /\ \E links \in LinkLists \cup LimitedLinkLists, iterations \in 0..max_iterations,
          target_bone \in {2, 4}, enabled \in BOOLEAN, limit_angle \in LimitAngles,
          anim \in {0, 1}, link_anim \in {0, 1}, stale \in {0, 2}, goal \in Goals :
           /\ (~enabled \/ target_bone = 4) => links = << Unlimited(1), Unlimited(0) >> /\ iterations = 1
           /\ links \in LinkLists => link_anim = 0 /\ goal # <<1, 0>>
           /\ links \in LimitedLinkLists => anim = 0 /\ stale = 0 /\ goal \in {<<0, 2>>, <<1, 0>>}
           /\ limit_angle # 2 =>
                 /\ links \in LimitedLinkLists \cup {<< Unlimited(1), Unlimited(0) >>}
                 /\ anim = 0 /\ link_anim = 0 /\ stale = 0
           /\ bones = Skeleton(anim, link_anim, stale, goal)
           /\ solver = [bone_index |-> 3, enabled |-> enabled,
                        config |-> [target_bone |-> target_bone, iterations |-> iterations,
                                    limit_angle |-> limit_angle, links |-> links]]
    /\ ik_pc = "idle"
    /\ iteration = 0
    /\ best_distance = F32_MAX
    /\ chain_states = <<>>
    /\ ik_trace = <<>>
    /\ ik_first = None
    /\ ik_memo = {}
\* one call of solve
IkInit == IkConfigured(MaxIterations) /\ ik_again = FALSE
\* two calls of solve in a row
IkInitAgain == IkConfigured(MaxAgainIterations) /\ ik_again = TRUE

IkIdle ==
    /\ bones = <<>>
    /\ solver = [bone_index |-> 0, enabled |-> TRUE,
                 config |-> [target_bone |-> 0, iterations |-> 0, limit_angle |-> 0,
                             links |-> <<>>]]
    /\ ik_pc = "idle"
    /\ iteration = 0
    /\ best_distance = F32_MAX
    /\ chain_states = <<>>
    /\ ik_trace = <<>>
    /\ ik_first = None
    /\ ik_memo = {}
    /\ ik_again = FALSE

\* solve, lines 62-89: the early returns, then the set-up of the chain.
\* solve is called once, and once more when it has returned
Solve ==
    /\ ik_pc = "idle" \/ (ik_pc = "done" /\ ik_again /\ ik_first = None)
    /\ ik_first' = IF ik_pc = "done" THEN Some(bones) ELSE ik_first
    /\ IF ~solver.enabled \/ TargetIdx >= Len(bones) \/ solver.bone_index >= Len(bones)
       THEN /\ ik_pc' = "done"
            /\ UNCHANGED <<bones, chain_states>>
       ELSE /\ ik_pc' = "loop"
            /\ chain_states' = [i \in 1..Len(Links) |->
                                 [prev_angle |-> 0, plane_mode_angle |-> 0, best_ik_rotate |-> 0,
                                  plane_input |-> None, prev_before |-> None]]
            /\ bones' = InitChain(bones, 1)
    /\ iteration' = 0
    /\ best_distance' = F32_MAX
    /\ ik_trace' = <<>>
    /\ UNCHANGED <<solver, ik_again, ik_memo>>
    /\ UNCHANGED ikOthers

\* solve_iteration computes a function of the bones, the chain states and
\* the iteration: a pass whose input has been seen gives what it gave then
PassInput == <<bones, chain_states, iteration>>
Seen == { m \in ik_memo : m.input = PassInput }
PassOutputs ==
    IF Seen # {} THEN { m.output : m \in Seen }
    ELSE SolveIteration(Pass(bones, chain_states, FALSE), 1, iteration)

\* one round of `for iteration in 0..self.config.iterations`, lines 92-120
SolveStep ==
    /\ ik_pc = "loop" /\ iteration < solver.config.iterations
    /\ \E st \in PassOutputs :
         LET solved == st.bones
             distance == Distance(solved)
         IN  /\ ik_memo' = IF ik_again THEN ik_memo \cup {[input |-> PassInput, output |-> st]}
                           ELSE ik_memo
             /\ IF st.panicked
                THEN /\ ik_pc' = "panicked"
                     /\ bones' = solved
                     /\ chain_states' = st.chain_states
                     /\ UNCHANGED <<ik_trace, best_distance, iteration>>
                ELSE /\ ik_trace' = Append(ik_trace,
                                        [distance |-> distance, ik_rotate |-> IkRotates(solved)])
                     /\ IF Improves(distance, best_distance)
                        THEN /\ best_distance' = distance
                             /\ chain_states' = SaveBest(solved, st.chain_states)
                             /\ bones' = solved
                             /\ iteration' = iteration + 1
                             /\ UNCHANGED ik_pc
                        ELSE /\ bones' = RestoreBest(solved, st.chain_states)
                             /\ chain_states' = st.chain_states
                             /\ ik_pc' = "done"
                             /\ UNCHANGED <<best_distance, iteration>>
    /\ UNCHANGED <<solver, ik_again, ik_first>>
    /\ UNCHANGED ikOthers

\* the range of the loop is exhausted: solve returns
SolveReturn ==
    /\ ik_pc = "loop" /\ iteration >= solver.config.iterations
    /\ ik_pc' = "done"
    /\ UNCHANGED <<bones, solver, iteration, best_distance, chain_states, ik_trace,
                   ik_again, ik_first, ik_memo>>
    /\ UNCHANGED ikOthers

IkNext ==
    \/ Solve
    \/ SolveStep
    \/ SolveReturn

(***************************************************************************)
(* animation/motion_track.rs                                               *)
(***************************************************************************)
Frames == 0..MaxFrame

\* BoneKeyframe with one translation axis; interpolation stands for the
\* control bytes interpolation_x/y/z/r
KeyframeSamples(frame_index) ==
    { [frame_index |-> frame_index, translation |-> s[1], orientation |-> s[2],
       is_physics_simulation_enabled |-> s[3], interpolation |-> s[4]] :
      s \in { <<0, 0, FALSE, "linear">>, <<1, 1, TRUE, "bezier">>,
              <<1, 0, FALSE, "bezier">>, <<0, 1, TRUE, "linear">> } }

\* BTreeMap::insert(key, value): the new entries in key order; an entry with
\* the same key is replaced
RECURSIVE BTreeInsert_Keep(_, _, _)
BTreeInsert_Keep(entries, key, value) ==
    IF entries = <<>> THEN <<value>>
    ELSE IF Head(entries).frame_index < key
         THEN <<Head(entries)>> \o BTreeInsert_Keep(Tail(entries), key, value)
         ELSE <<value>> \o entries
RECURSIVE BTreeInsert(_, _, _)
BTreeInsert(entries, key, value) ==
    IF entries = <<>> THEN <<value>>
    ELSE IF Head(entries).frame_index < key
         THEN <<Head(entries)>> \o BTreeInsert(Tail(entries), key, value)
         ELSE IF Head(entries).frame_index = key
              THEN <<value>> \o Tail(entries)
              ELSE <<value>> \o entries

\* BTreeMap::get(&key)
RECURSIVE BTreeGet(_, _)
BTreeGet(entries, key) ==
    IF entries = <<>> THEN None
    ELSE IF Head(entries).frame_index = key THEN Some(Head(entries))
         ELSE BTreeGet(Tail(entries), key)

\* BTreeMap::remove(&key)
RECURSIVE BTreeRemove(_, _)
BTreeRemove(entries, key) ==
    IF entries = <<>> THEN <<>>
    ELSE IF Head(entries).frame_index = key THEN Tail(entries)
         ELSE <<Head(entries)>> \o BTreeRemove(Tail(entries), key)

\* the loop of search_closest_keyframes / search_closest over the entries in
\* key order
Closest_Lt(idx, frame_index) == idx < frame_index
Closest(idx, frame_index) == idx <= frame_index
RECURSIVE SearchLoop(_, _, _)
SearchLoop(entries, frame_index, prev) ==
    IF entries = <<>> THEN <<prev, None>>
    ELSE IF Closest(Head(entries).frame_index, frame_index)
         THEN SearchLoop(Tail(entries), frame_index, Some(Head(entries)))
         ELSE <<prev, Some(Head(entries))>>
SearchClosestKeyframes(frame_index) == SearchLoop(keyframes, frame_index, None)
IndexOf(kf) == IF kf = None THEN None ELSE Some(kf[1].frame_index)

\* interpolation::coefficient(prev, next, frame): the fraction (frame - prev) / (next - prev)
Coefficient(prev_index, next_index, frame_index) ==
    <<frame_index - prev_index, next_index - prev_index>>
\* KeyframeInterpolationPoint::curve_value(interval, coef, factory): the value
\* of the keyframe's curve of that interval at coef, kept as a term
CurveValue(interpolation, interval, coef) == <<interpolation, interval, coef[1], coef[2]>>
\* a value is the term <<from, to, amount>> for lerp/slerp(from, to, amount)
NoAmount == <<"none", 0, 0, 1>>
Exact(v) == <<v, v, NoAmount>>
LerpElementWise(a, b, amounts) == <<a, b, amounts>>
Slerp(a, b, amount) == <<a, b, amount>>

\* BoneFrameTransform::default
DefaultFrame ==
    [translation |-> Exact(0), orientation |-> Exact(0), interpolation |-> "linear",
     local_transform_mix |-> None, enable_physics |-> FALSE, disable_physics |-> FALSE]

\* a keyframe taken as it is (find, and the one-sided arms of seek)
FrameOf(kf) ==
    [translation |-> Exact(kf.translation), orientation |-> Exact(kf.orientation),
     interpolation |-> kf.interpolation, local_transform_mix |-> None,
     enable_physics |-> kf.is_physics_simulation_enabled, disable_physics |-> FALSE]

\* BoneMotionTrack::find
Find(frame_index) ==
    IF BTreeGet(keyframes, frame_index) = None THEN None
    ELSE Some(FrameOf(BTreeGet(keyframes, frame_index)[1]))

Handoff_Either(prev_enabled, next_enabled) == prev_enabled # next_enabled
Handoff(prev_enabled, next_enabled) == prev_enabled /\ ~next_enabled

\* the (Some(prev), Some(next)) arm of seek, lines 191-241
Between(prev, next, frame_index) ==
    LET interval == next.frame_index - prev.frame_index
        coef == Coefficient(prev.frame_index, next.frame_index, frame_index)
        prev_enabled == prev.is_physics_simulation_enabled
        next_enabled == next.is_physics_simulation_enabled
    IN  IF Handoff(prev_enabled, next_enabled)
        THEN [translation |-> Exact(next.translation),
              orientation |-> Exact(next.orientation),
              interpolation |-> next.interpolation,
              local_transform_mix |-> Some(coef),
              enable_physics |-> FALSE, disable_physics |-> TRUE]
        ELSE [translation |-> LerpElementWise(prev.translation, next.translation,
                                  CurveValue(next.interpolation, interval, coef)),
              orientation |-> Slerp(prev.orientation, next.orientation,
                                  CurveValue(next.interpolation, interval, coef)),
              interpolation |-> next.interpolation,
              local_transform_mix |-> None,
              enable_physics |-> prev_enabled /\ next_enabled,
              disable_physics |-> FALSE]

\* BoneMotionTrack::seek
SeekFrame(frame_index) ==
    IF Find(frame_index) # None THEN Find(frame_index)[1]
    ELSE LET prev_kf == SearchClosestKeyframes(frame_index)[1]
             next_kf == SearchClosestKeyframes(frame_index)[2]
         IN  CASE prev_kf # None /\ next_kf # None -> Between(prev_kf[1], next_kf[1], frame_index)
               [] prev_kf # None /\ next_kf = None -> FrameOf(prev_kf[1])
               [] prev_kf = None /\ next_kf # None -> FrameOf(next_kf[1])
               [] OTHER -> DefaultFrame

\* BoneMotionTrack::new
TkInit ==
    /\ keyframes = <<>>
    /\ track_call = [op |-> "new", arg |-> 0, ret |-> None]

InsertKeyframe ==
    /\ \E f \in Frames : \E keyframe \in KeyframeSamples(f) :
         /\ keyframes' = BTreeInsert(keyframes, keyframe.frame_index, keyframe)
         /\ track_call' = [op |-> "insert_keyframe", arg |-> keyframe,
                           ret |-> BTreeGet(keyframes, keyframe.frame_index)]
    /\ UNCHANGED tkOthers

RemoveKeyframe ==
    /\ \E frame_index \in Frames :
         /\ keyframes' = BTreeRemove(keyframes, frame_index)
         /\ track_call' = [op |-> "remove_keyframe", arg |-> frame_index,
                           ret |-> BTreeGet(keyframes, frame_index)]
    /\ UNCHANGED tkOthers

SearchClosest ==
    /\ \E frame_index \in Frames :
         track_call' = [op |-> "search_closest", arg |-> frame_index,
                        ret |-> << IndexOf(SearchClosestKeyframes(frame_index)[1]),
                                   IndexOf(SearchClosestKeyframes(frame_index)[2]) >>]
    /\ UNCHANGED keyframes
    /\ UNCHANGED tkOthers

Seek ==
    /\ \E frame_index \in Frames :
         track_call' = [op |-> "seek", arg |-> frame_index, ret |-> SeekFrame(frame_index)]
    /\ UNCHANGED keyframes
    /\ UNCHANGED tkOthers

TkNext ==
    \/ InsertKeyframe
    \/ RemoveKeyframe
    \/ SearchClosest
    \/ Seek

(***************************************************************************)
(* physics/config.rs and the per-frame calls of physics/mmd_physics.rs     *)
(* Vectors are one signed component; delta times are whole units.          *)
(***************************************************************************)
\* PhysicsConfig::default, the fields the per-frame calls use
DefaultConfig ==
    [physics_fps |-> 60, max_substep_count |-> 5, inertia_strength |-> 1,
     max_linear_velocity |-> 100, max_angular_velocity |-> 50]
\* configurations a caller passes to set_config
Configs ==
    { DefaultConfig,
      [physics_fps |-> 30, max_substep_count |-> 2, inertia_strength |-> 2,
       max_linear_velocity |-> 1, max_angular_velocity |-> 2],
      [DefaultConfig EXCEPT !.inertia_strength = 0] }

Sign(v) == IF v < 0 THEN -1 ELSE IF v > 0 THEN 1 ELSE 0
\* v * (m / |v|) when v^2 > m^2
ClampLength(v, m) == IF v * v > m * m THEN Sign(v) * m ELSE v

\* the bodies build_physics leaves: a bone follower, a dynamic body, a
\* dynamic body whose engine object could not be created, a massless body
BuiltBodies ==
    << [physics_mode |-> "FollowBone", bone_index |-> 0, bullet_body |-> TRUE, mass |-> 0,
        initial_transform |-> 7],
       [physics_mode |-> "Physics", bone_index |-> 1, bullet_body |-> TRUE, mass |-> 1,
        initial_transform |-> 8],
       [physics_mode |-> "PhysicsWithBone", bone_index |-> 1, bullet_body |-> FALSE, mass |-> 1,
        initial_transform |-> 9] >>
\* what the engine holds for a body
BodyState(transform, linear_velocity, angular_velocity, force) ==
    [transform |-> transform, linear_velocity |-> linear_velocity,
     angular_velocity |-> angular_velocity, force |-> force]
WithState(b, st) ==
    [physics_mode |-> b.physics_mode, bone_index |-> b.bone_index,
     bullet_body |-> b.bullet_body, mass |-> b.mass,
     initial_transform |-> b.initial_transform, state |-> st]

\* max_speed of sync_bodies_with_model_velocity
MaxSpeed == 20

\* sync_bodies: the set_transform calls for the bone followers
RECURSIVE SyncBodiesCalls(_, _, _)
SyncBodiesCalls(bodies, bone_transforms, i) ==
    IF i > Len(bodies) THEN <<>>
    ELSE (IF bodies[i].physics_mode = "FollowBone"
             /\ bodies[i].bone_index >= 0 /\ AsUsize(bodies[i].bone_index) < Len(bone_transforms)
             /\ bodies[i].bullet_body
          THEN << <<"set_transform", i, bone_transforms[bodies[i].bone_index + 1]>> >>
          ELSE <<>>) \o SyncBodiesCalls(bodies, bone_transforms, i + 1)

\* model velocity of sync_bodies_with_model_velocity, lines 216-224
ModelVelocity(prev_model_position, curr_pos, dt) ==
    IF prev_model_position # None THEN (curr_pos - prev_model_position[1]) \div dt ELSE 0

\* the inertia forces, lines 230-277, under configuration config for an
\* instance whose cached rate is fps
RECURSIVE InertiaCalls(_, _, _, _, _, _)
InertiaCalls(bodies, config, fps, model_velocity, dt, i) ==
    IF i > Len(bodies) THEN <<>>
    ELSE LET world_vel == ClampLength(model_velocity, MaxSpeed)
             inertia_vel == (0 - world_vel) * config.inertia_strength
             max_accel == config.max_linear_velocity * fps
             mass == bodies[i].mass
             force == ClampLength((inertia_vel * mass) \div dt, max_accel * mass)
         IN  (IF bodies[i].physics_mode # "FollowBone" /\ bodies[i].bullet_body /\ mass > 0
              THEN << <<"apply_central_force", i, force>> >>
              ELSE <<>>) \o InertiaCalls(bodies, config, fps, model_velocity, dt, i + 1)

\* all engine calls of sync_bodies_with_model_velocity
SyncCalls(bodies, config, fps, prev_model_position, bone_transforms, dt, curr_pos) ==
    SyncBodiesCalls(bodies, bone_transforms, 1) \o
    (IF config.inertia_strength > 0
        /\ ModelVelocity(prev_model_position, curr_pos, dt) # 0
     THEN InertiaCalls(bodies, config, fps,
                       ModelVelocity(prev_model_position, curr_pos, dt), dt, 1)
     ELSE <<>>)

\* the velocity clamps of step_simulation, lines 289-315, on the velocities
\* the engine reports after the step
RECURSIVE ClampCalls(_, _, _)
ClampCalls(bodies, config, i) ==
    IF i > Len(bodies) THEN <<>>
    ELSE LET lin_vel == bodies[i].state.linear_velocity
             ang_vel == bodies[i].state.angular_velocity
             max_lin == config.max_linear_velocity
             max_ang == config.max_angular_velocity
             live == bodies[i].physics_mode # "FollowBone" /\ bodies[i].bullet_body
         IN  (IF live /\ lin_vel * lin_vel > max_lin * max_lin
              THEN << <<"set_linear_velocity", i, ClampLength(lin_vel, max_lin)>> >> ELSE <<>>)
             \o (IF live /\ ang_vel * ang_vel > max_ang * max_ang
                 THEN << <<"set_angular_velocity", i, ClampLength(ang_vel, max_ang)>> >> ELSE <<>>)
             \o ClampCalls(bodies, config, i + 1)

\* all engine calls of step_simulation: fixed_dt = 1 / fps is given as fps
StepCalls(bodies, config, fps, max_substep_count, delta_time) ==
    << <<"step", delta_time, max_substep_count, fps>> >> \o ClampCalls(bodies, config, 1)

\* the engine calls of reset, lines 378-385
ResetBodyCalls_KeepVelocity(body, i) ==
    << <<"set_transform", i, body.initial_transform>>, <<"clear_forces", i, 0>> >>
ResetBodyCalls(body, i) ==
    << <<"set_transform", i, body.initial_transform>>,
       <<"set_linear_velocity", i, 0>>,
       <<"set_angular_velocity", i, 0>>,
       <<"clear_forces", i, 0>> >>
RECURSIVE ResetCalls(_, _)
ResetCalls(bodies, i) ==
    IF i > Len(bodies) THEN <<>>
    ELSE (IF bodies[i].bullet_body THEN ResetBodyCalls(bodies[i], i) ELSE <<>>)
         \o ResetCalls(bodies, i + 1)

\* the engine's side of one call on a body
EngineApply(st, c) ==
    CASE c[1] = "set_transform" -> [st EXCEPT !.transform = c[3]]
      [] c[1] = "set_linear_velocity" -> [st EXCEPT !.linear_velocity = c[3]]
      [] c[1] = "set_angular_velocity" -> [st EXCEPT !.angular_velocity = c[3]]
      [] c[1] = "apply_central_force" -> [st EXCEPT !.force = st.force + c[3]]
      [] c[1] = "clear_forces" -> [st EXCEPT !.force = 0]
      [] OTHER -> st
RECURSIVE EngineRun(_, _, _)
EngineRun(bodies, calls, k) ==
    IF k > Len(calls) THEN bodies
    ELSE EngineRun(IF calls[k][1] = "step" THEN bodies
                   ELSE [bodies EXCEPT ![calls[k][2]].state = EngineApply(@, calls[k])],
                   calls, k + 1)

\* inputs of the per-frame calls
ModelPositions == {0, 8, 80}
DeltaTimes == {1, 2}
BoneTransforms == << 5, 6 >>
\* what world.step can leave on a dynamic body: transform, linear and angular velocity
EngineOutcomes == { <<8, 0, 0>>, <<3, 3, 3>>, <<3, -150, 60>> }

\* before: for reset, the bodies and prev_model_position the call found
NoCall ==
    [op |-> "none", calls |-> <<>>, frozen_calls |-> <<>>, model_velocity |-> 0,
     before |-> None]

\* the process before any MMDPhysics exists: PHYSICS_CONFIG holds the default
SmInit ==
    /\ physics_config = DefaultConfig
    /\ mmd = None
    /\ sim_bodies = <<>>
    /\ created_config = None
    /\ sim_op = NoCall
SmIdle == SmInit

\* config::set_config
SetConfig ==
    /\ \E config \in Configs : physics_config' = config
    /\ sim_op' = [NoCall EXCEPT !.op = "set_config"]
    /\ UNCHANGED <<mmd, sim_bodies, created_config>>
    /\ UNCHANGED smOthers

\* config::reset_config
ResetConfig ==
    /\ physics_config' = DefaultConfig
    /\ sim_op' = [NoCall EXCEPT !.op = "reset_config"]
    /\ UNCHANGED <<mmd, sim_bodies, created_config>>
    /\ UNCHANGED smOthers

\* MMDPhysics::new: None when the engine cannot create the world
MmdNew ==
    /\ mmd = None
    /\ \E world_created \in BOOLEAN :
         IF world_created
         THEN /\ mmd' = Some([fps |-> physics_config.physics_fps,
                              max_substep_count |-> physics_config.max_substep_count,
                              prev_model_position |-> None])
              /\ created_config' = Some(physics_config)
              /\ sim_op' = [NoCall EXCEPT !.op = "new"]
         ELSE /\ UNCHANGED <<mmd, created_config>>
              /\ sim_op' = [NoCall EXCEPT !.op = "new_failed"]
    /\ UNCHANGED <<physics_config, sim_bodies>>
    /\ UNCHANGED smOthers

\* build_physics, as far as the per-frame calls see it: the bodies, each at
\* its initial transform and at rest
MmdBuild ==
    /\ mmd # None /\ sim_bodies = <<>>
    /\ sim_bodies' = [i \in 1..Len(BuiltBodies) |->
                        WithState(BuiltBodies[i],
                                  BodyState(BuiltBodies[i].initial_transform, 0, 0, 0))]
    /\ sim_op' = [NoCall EXCEPT !.op = "build_physics"]
    /\ UNCHANGED <<physics_config, mmd, created_config>>
    /\ UNCHANGED smOthers

\* MMDPhysics::sync_bodies_with_model_velocity
SyncBodiesWithModelVelocity ==
    /\ mmd # None
    /\ \E delta_time \in DeltaTimes, curr_pos \in ModelPositions :
         LET config == physics_config
             calls == SyncCalls(sim_bodies, config, mmd[1].fps, mmd[1].prev_model_position,
                                BoneTransforms, delta_time, curr_pos)
         IN  /\ sim_bodies' = EngineRun(sim_bodies, calls, 1)
             /\ \A i \in 1..Len(sim_bodies) :
                   sim_bodies'[i].state.force \in (0 - MaxForce)..MaxForce
             /\ mmd' = Some([mmd[1] EXCEPT !.prev_model_position = Some(curr_pos)])
             /\ sim_op' = [op |-> "sync_bodies_with_model_velocity", calls |-> calls,
                           frozen_calls |-> SyncCalls(sim_bodies, created_config[1], mmd[1].fps,
                                               mmd[1].prev_model_position, BoneTransforms,
                                               delta_time, curr_pos),
                           model_velocity |-> ModelVelocity(mmd[1].prev_model_position,
                                                            curr_pos, delta_time),
                           before |-> None]
    /\ UNCHANGED <<physics_config, created_config>>
    /\ UNCHANGED smOthers

\* the bodies after world.step: every dynamic body that lives in the engine
\* gets one of the outcomes, its accumulated force is consumed
Stepped(bodies, outcome) ==
    [i \in 1..Len(bodies) |->
        IF bodies[i].physics_mode # "FollowBone" /\ bodies[i].bullet_body
        THEN [bodies[i] EXCEPT !.state = BodyState(outcome[1], outcome[2], outcome[3], 0)]
        ELSE bodies[i]]

\* MMDPhysics::step_simulation
StepSimulation ==
    /\ mmd # None
    /\ \E delta_time \in DeltaTimes, outcome \in EngineOutcomes :
         LET config == physics_config
             stepped == Stepped(sim_bodies, outcome)
             calls == StepCalls(stepped, config, mmd[1].fps, mmd[1].max_substep_count, delta_time)
         IN  /\ sim_bodies' = EngineRun(stepped, calls, 1)
             /\ sim_op' = [op |-> "step_simulation", calls |-> calls,
                           frozen_calls |-> StepCalls(stepped, created_config[1],
                                               created_config[1].physics_fps,
                                               created_config[1].max_substep_count, delta_time),
                           model_velocity |-> 0, before |-> None]
    /\ UNCHANGED <<physics_config, mmd, created_config>>
    /\ UNCHANGED smOthers

\* MMDPhysics::reset
MmdReset ==
    /\ mmd # None
    /\ mmd' = Some([mmd[1] EXCEPT !.prev_model_position = None])
    /\ sim_bodies' = EngineRun(sim_bodies, ResetCalls(sim_bodies, 1), 1)
    /\ sim_op' = [op |-> "reset", calls |-> ResetCalls(sim_bodies, 1),
                  frozen_calls |-> ResetCalls(sim_bodies, 1), model_velocity |-> 0,
                  before |-> Some([bodies |-> sim_bodies,
                                   prev_model_position |-> mmd[1].prev_model_position])]
    /\ UNCHANGED <<physics_config, created_config>>
    /\ UNCHANGED smOthers

SmNext ==
    \/ SetConfig
    \/ ResetConfig
    \/ MmdNew
    \/ MmdBuild
    \/ SyncBodiesWithModelVelocity
    \/ StepSimulation
    \/ MmdReset

(***************************************************************************)
(* animation/motion_track.rs: MorphMotionTrack and seek_precisely of both  *)
(* tracks.  Frame indices are u32 of WordBits bits; amounts are fractions  *)
(* <<numerator, denominator>>.                                             *)
(***************************************************************************)
\* MorphKeyframe
MorphKeyframeSamples(frame_index) ==
    { [frame_index |-> frame_index, weight |-> w] : w \in {0, 1} }

\* MorphMotionTrack::search_closest_keyframes
MorphSearchClosestKeyframes(frame_index) == SearchLoop(morph_keyframes, frame_index, None)

\* lerp_f32(a, b, t), kept as a term
LerpF32(a, b, t) == <<a, b, t>>

\* MorphMotionTrack::find
MorphFind(frame_index) ==
    IF BTreeGet(morph_keyframes, frame_index) = None THEN None
    ELSE Some(BTreeGet(morph_keyframes, frame_index)[1].weight)

\* MorphMotionTrack::seek: a weight is the term lerp_f32(from, to, coef)
MorphSeek(frame_index) ==
    IF MorphFind(frame_index) # None
    THEN LerpF32(MorphFind(frame_index)[1], MorphFind(frame_index)[1], <<0, 1>>)
    ELSE LET prev_kf == MorphSearchClosestKeyframes(frame_index)[1]
             next_kf == MorphSearchClosestKeyframes(frame_index)[2]
         IN  CASE prev_kf # None /\ next_kf # None ->
                    LerpF32(prev_kf[1].weight, next_kf[1].weight,
                            Coefficient(prev_kf[1].frame_index, next_kf[1].frame_index, frame_index))
               [] prev_kf # None /\ next_kf = None ->
                    LerpF32(prev_kf[1].weight, prev_kf[1].weight, <<0, 1>>)
               [] prev_kf = None /\ next_kf # None ->
                    LerpF32(next_kf[1].weight, next_kf[1].weight, <<0, 1>>)
               [] OTHER -> LerpF32(0, 0, <<0, 1>>)

\* the amounts a caller passes: 0 and 1/2
Amounts == {<<0, 1>>, <<1, 2>>}
Positive(amount) == amount[1] > 0

\* the frame indices a caller passes: the keyframe range and the largest u32
SeekFrames == Frames \cup {U32Max}

\* frame_index + 1 in u32: the sum, or on overflow a panic (None) with
\* overflow checks and the wrapped value without
NextFrame(frame_index) ==
    IF frame_index + 1 > U32Max
    THEN IF overflow_checks THEN None ELSE Some((frame_index + 1) % (U32Max + 1))
    ELSE Some(frame_index + 1)

\* the local_transform_mix arm of BoneMotionTrack::seek_precisely, lines 298-303
MixBlend(a0, a1, amount) ==
    CASE a0 # None /\ a1 # None -> Some(LerpF32(a0[1], a1[1], amount))
      [] a0 = None /\ a1 # None -> Some(LerpF32(<<0, 1>>, a1[1], amount))
      [] a0 # None /\ a1 = None -> Some(LerpF32(a0[1], <<0, 1>>, amount))
      [] OTHER -> None

\* the BoneFrameTransform built at lines 305-312
BoneBlend(f0, f1, amount) ==
    [translation |-> LerpF32(f0.translation, f1.translation, amount),
     orientation |-> Slerp(f0.orientation, f1.orientation, amount),
     interpolation |-> LerpF32(f0.interpolation, f1.interpolation, amount),
     local_transform_mix |-> MixBlend(f0.local_transform_mix, f1.local_transform_mix, amount),
     enable_physics |-> f0.enable_physics /\ f1.enable_physics,
     disable_physics |-> f0.disable_physics \/ f1.disable_physics]

\* BoneMotionTrack::seek_precisely: None when the call panics
BoneSeekPrecisely(frame_index, amount) ==
    IF Positive(amount)
    THEN IF NextFrame(frame_index) = None THEN None
         ELSE Some(BoneBlend(SeekFrame(frame_index), SeekFrame(NextFrame(frame_index)[1]), amount))
    ELSE Some(SeekFrame(frame_index))

\* MorphMotionTrack::seek_precisely: None when the call panics
MorphSeekPrecisely(frame_index, amount) ==
    IF Positive(amount)
    THEN IF NextFrame(frame_index) = None THEN None
         ELSE Some(LerpF32(MorphSeek(frame_index), MorphSeek(NextFrame(frame_index)[1]), amount))
    ELSE Some(MorphSeek(frame_index))

\* the tracks the calls are made on: up to two keyframes inserted into a new track
BoneTracks ==
    {<<>>}
    \cup { BTreeInsert(<<>>, k.frame_index, k) :
           k \in UNION { KeyframeSamples(f) : f \in Frames } }
    \cup { BTreeInsert(BTreeInsert(<<>>, k.frame_index, k), l.frame_index, l) :
           k \in KeyframeSamples(0), l \in UNION { KeyframeSamples(f) : f \in Frames \ {0} } }
MorphTracks ==
    {<<>>}
    \cup { BTreeInsert(<<>>, k.frame_index, k) :
           k \in UNION { MorphKeyframeSamples(f) : f \in Frames } }
    \cup { BTreeInsert(BTreeInsert(<<>>, k.frame_index, k), l.frame_index, l) :
           k \in MorphKeyframeSamples(0), l \in UNION { MorphKeyframeSamples(f) : f \in Frames \ {0} } }

NoSeek == [track |-> "none", frame_index |-> 0, amount |-> <<0, 1>>, panicked |-> FALSE, ret |-> None]

\* one of the two tracks holds keyframes, the other is new
SkInit ==
    /\ \/ keyframes \in BoneTracks /\ morph_keyframes = <<>>
       \/ keyframes = <<>> /\ morph_keyframes \in MorphTracks
    /\ track_call = [op |-> "new", arg |-> 0, ret |-> None]
    /\ seek_call = NoSeek

\* the tracks while another subsystem is being exercised
SkIdle ==
    /\ morph_keyframes = <<>>
    /\ seek_call = NoSeek

BoneSeekPreciselyCall ==
    /\ \E frame_index \in SeekFrames : \E amount \in Amounts :
         seek_call' = [track |-> "bone", frame_index |-> frame_index, amount |-> amount,
                       panicked |-> BoneSeekPrecisely(frame_index, amount) = None,
                       ret |-> BoneSeekPrecisely(frame_index, amount)]
    /\ UNCHANGED morph_keyframes
    /\ UNCHANGED skOthers

MorphSeekPreciselyCall ==
    /\ \E frame_index \in SeekFrames : \E amount \in Amounts :
         seek_call' = [track |-> "morph", frame_index |-> frame_index, amount |-> amount,
                       panicked |-> MorphSeekPrecisely(frame_index, amount) = None,
                       ret |-> MorphSeekPrecisely(frame_index, amount)]
    /\ UNCHANGED morph_keyframes
    /\ UNCHANGED skOthers

SkNext ==
    \/ BoneSeekPreciselyCall
    \/ MorphSeekPreciselyCall

(***************************************************************************)
(* morph/manager.rs: material morph results and UV deltas.  f32 values are *)
(* exact fractions <<numerator, denominator>> in lowest terms; a Vec is    *)
(* one of its components.                                                  *)
(***************************************************************************)
RECURSIVE Gcd(_, _)
Gcd(a, b) == IF b = 0 THEN a ELSE Gcd(b, a % b)
Q(n, d) ==
    LET g == Gcd(IF n < 0 THEN 0 - n ELSE n, d) IN <<n \div g, d \div g>>
QAdd(a, b) == Q(a[1] * b[2] + b[1] * a[2], a[2] * b[2])
QSub(a, b) == Q(a[1] * b[2] - b[1] * a[2], a[2] * b[2])
QMul(a, b) == Q(a[1] * b[1], a[2] * b[2])
QAbs(a) == IF a[1] < 0 THEN <<0 - a[1], a[2]>> ELSE a
QLess(a, b) == a[1] * b[2] < b[1] * a[2]
Zero == Q(0, 1)
One == Q(1, 1)
\* the cut 0.001 of apply_morphs and apply_single_morph
WeightCut == Q(1, 1000)

\* MaterialMorphResult::new: edge_size 1, edge_color (0, 0, 0, 1)
MaterialMorphResultNew == [edge_size |-> One, edge_color |-> Zero]

\* the closures of apply_multiply: base * (1 + (target - 1) * w)
ApplyMultiply_Lerp(base, target, w) == QAdd(base, QMul(QSub(target, base), w))
ApplyMultiply(base, target, w) == QMul(base, QAdd(One, QMul(QSub(target, One), w)))
\* apply_additive: base + target * w
ApplyAdditive(base, target, w) == QAdd(base, QMul(target, w))

\* apply_multiply / apply_additive on one result, chosen by offset.operation
ApplyOffset(result, offset, weight) ==
    IF offset.operation = 0
    THEN [edge_size |-> ApplyMultiply(result.edge_size, offset.edge_size, weight),
          edge_color |-> ApplyMultiply(result.edge_color, offset.edge_color, weight)]
    ELSE [edge_size |-> ApplyAdditive(result.edge_size, offset.edge_size, weight),
          edge_color |-> ApplyAdditive(result.edge_color, offset.edge_color, weight)]

\* the body of the loop of apply_material_morph_offsets for one offset
ApplyMaterialMorphOffset(results, offset, weight) ==
    IF offset.material_index < 0
    THEN [k \in 1..Len(results) |-> ApplyOffset(results[k], offset, weight)]
    ELSE IF offset.material_index < Len(results)
         THEN [results EXCEPT ![offset.material_index + 1] =
                                  ApplyOffset(results[offset.material_index + 1], offset, weight)]
         ELSE results

\* the working state of apply_morphs: the two buffers and the history of
\* the material offsets applied
Buffers(results, uv, trace) == [results |-> results, uv |-> uv, trace |-> trace]

\* apply_material_morph_offsets
RECURSIVE ApplyMaterialMorphOffsets(_, _, _)
ApplyMaterialMorphOffsets(st, offsets, weight) ==
    IF offsets = <<>> THEN st
    ELSE LET after == ApplyMaterialMorphOffset(st.results, Head(offsets), weight) IN
         ApplyMaterialMorphOffsets(
             Buffers(after, st.uv,
                     Append(st.trace, [offset |-> Head(offsets), weight |-> weight,
                                       before |-> st.results, after |-> after])),
             Tail(offsets), weight)

\* apply_uv_morph_offsets
RECURSIVE ApplyUvMorphOffsets(_, _, _)
ApplyUvMorphOffsets(st, offsets, weight) ==
    IF offsets = <<>> THEN st
    ELSE LET idx == Head(offsets).vertex_index
             uv == IF idx < Len(st.uv)
                   THEN [st.uv EXCEPT ![idx + 1] = QAdd(@, QMul(Head(offsets).offset, weight))]
                   ELSE st.uv
         IN  ApplyUvMorphOffsets(Buffers(st.results, uv, st.trace), Tail(offsets), weight)

\* apply_single_morph on the buffers (vertex and bone morphs touch neither)
RECURSIVE MatApplySingleMorph(_, _, _, _)
RECURSIVE MatGroupLoop(_, _, _, _, _)
MatApplySingleMorph(st, morph_idx, effective_weight, depth) ==
    IF depth > MaxMorphDepth \/ QLess(QAbs(effective_weight), WeightCut) THEN st
    ELSE IF morph_idx >= Len(mat_morphs) THEN st
    ELSE LET morph == mat_morphs[morph_idx + 1] IN
         CASE morph.morph_type \in {"Group", "Flip"} ->
                  MatGroupLoop(st, morph_idx, morph.group_offsets, effective_weight, depth)
           [] morph.morph_type = "Material" ->
                  ApplyMaterialMorphOffsets(st, morph.material_offsets, effective_weight)
           [] morph.morph_type \in {"Uv", "AdditionalUv1"} ->
                  ApplyUvMorphOffsets(st, morph.uv_offsets, effective_weight)
           [] OTHER -> st
MatGroupLoop(st, morph_idx, group_offsets, effective_weight, depth) ==
    IF group_offsets = <<>> THEN st
    ELSE LET sub == Head(group_offsets)
             sub_idx == AsUsize(sub.morph_index)
             next == IF sub_idx < Len(mat_morphs) /\ sub_idx # morph_idx
                     THEN MatApplySingleMorph(st, sub_idx, QMul(effective_weight, sub.influence),
                                              depth + 1)
                     ELSE st
         IN  MatGroupLoop(next, morph_idx, Tail(group_offsets), effective_weight, depth)

\* apply_morphs lines 281-288: both buffers are reset
ResetResults_Keep(results) == results
ResetResults(results) == [k \in 1..Len(results) |-> MaterialMorphResultNew]
ResetDeltas(uv) == [k \in 1..Len(uv) |-> Zero]

\* apply_morphs lines 291-298: every morph with |weight| > 0.001, in index order
RECURSIVE ApplyActive(_, _)
ApplyActive(st, k) ==
    IF k > Len(mat_morphs) THEN st
    ELSE ApplyActive(IF QLess(WeightCut, QAbs(mat_morphs[k].weight))
                     THEN MatApplySingleMorph(st, k - 1, mat_morphs[k].weight, 0)
                     ELSE st, k + 1)

MaterialOffset(material_index, operation, edge_size, edge_color) ==
    [material_index |-> material_index, operation |-> operation,
     edge_size |-> edge_size, edge_color |-> edge_color]
MatMorph(morph_type, material_offsets, uv_offsets, group_offsets) ==
    [morph_type |-> morph_type, weight |-> Zero, material_offsets |-> material_offsets,
     uv_offsets |-> uv_offsets, group_offsets |-> group_offsets]

\* the materials and vertices of the loaded model
MaterialCount == 2
VertexCount == 2

\* the morphs of the loaded model: a multiplying broadcast, an addition to
\* the last material, an offset one past the last material, a multiplying
\* offset of material 0, a UV morph (one index past the end) and a group of
\* the first and the UV morph
LoadedMorphs ==
    << MatMorph("Material", <<MaterialOffset(-1, 0, Q(2, 1), Q(2, 1))>>, <<>>, <<>>),
       MatMorph("Material", <<MaterialOffset(MaterialCount - 1, 1, Q(2, 1), Q(1, 2))>>, <<>>, <<>>),
       MatMorph("Material", <<MaterialOffset(MaterialCount, 0, Q(2, 1), Q(2, 1))>>, <<>>, <<>>),
       MatMorph("Material", <<MaterialOffset(0, 0, Q(2, 1), Q(0, 1))>>, <<>>, <<>>),
       MatMorph("Uv", <<>>, << [vertex_index |-> 0, offset |-> One],
                               [vertex_index |-> VertexCount, offset |-> One] >>, <<>>),
       MatMorph("Group", <<>>, <<>>, << [morph_index |-> 0, influence |-> Q(1, 2)],
                                        [morph_index |-> 4, influence |-> One],
                                        [morph_index |-> 5, influence |-> One] >>) >>

\* the weights set_morph_weight is called with
MorphWeights(index) == IF index \in {0, 5} THEN {Zero, Q(1, 2), One} ELSE {Zero, One}

\* MorphManager after the model is loaded: add_morph for every morph,
\* init_material_morph_results and init_uv_morph_deltas
MtInit ==
    /\ mat_morphs = LoadedMorphs
    /\ material_morph_results = [k \in 1..MaterialCount |-> MaterialMorphResultNew]
    /\ uv_morph_deltas = [k \in 1..VertexCount |-> Zero]
    /\ mat_call = [op |-> "new", prev |-> "new", trace |-> <<>>]

\* MorphManager::new while another subsystem is being exercised
MtIdle ==
    /\ mat_morphs = <<>>
    /\ material_morph_results = <<>>
    /\ uv_morph_deltas = <<>>
    /\ mat_call = [op |-> "new", prev |-> "new", trace |-> <<>>]

SetMorphWeight ==
    /\ \E index \in 0..Len(mat_morphs) : \E weight \in MorphWeights(index) :
         mat_morphs' = IF index < Len(mat_morphs)
                       THEN [mat_morphs EXCEPT ![index + 1].weight = weight]
                       ELSE mat_morphs
    /\ mat_call' = [op |-> "set_morph_weight", prev |-> mat_call.op, trace |-> <<>>]
    /\ UNCHANGED <<material_morph_results, uv_morph_deltas>>
    /\ UNCHANGED mtOthers

\* apply_morphs, the whole call
MatApplyMorphs ==
    /\ LET st == ApplyActive(Buffers(ResetResults(material_morph_results),
                                     ResetDeltas(uv_morph_deltas), <<>>), 1)
       IN  /\ material_morph_results' = st.results
           /\ uv_morph_deltas' = st.uv
           /\ mat_call' = [op |-> "apply_morphs", prev |-> mat_call.op, trace |-> st.trace]
    /\ UNCHANGED mat_morphs
    /\ UNCHANGED mtOthers

MtNext ==
    \/ SetMorphWeight
    \/ MatApplyMorphs

(***************************************************************************)
(* animation/vmd_loader.rs: VmdFile::load_from_reader.  The input is its   *)
(* length in bytes and the values its fields hold where they are present.  *)
(***************************************************************************)
\* the header buffer and the compared prefix
HeaderLen == 30
MagicLen == 25
ModelNameLen == 20
\* the reads of read_bone_keyframe in order: name, frame index, translation
\* x y z, rotation x y z w, interpolation table
BoneRecordReads == <<15, 4, 4, 4, 4, 4, 4, 4, 4, 64>>
\* the reads of read_morph_keyframe: name, frame index, weight
MorphRecordReads == <<15, 4, 4>>

\* Read::read_exact of n bytes at pos: the new position, or None for Err
ReadExact_Short(pos, n, len) == IF pos + n <= len + 1 THEN Some(pos + n) ELSE None
ReadExact(pos, n, len) == IF pos + n <= len THEN Some(pos + n) ELSE None

\* a run of read_exact / read_u32 / read_f32 calls, each with `?`
RECURSIVE ReadAll(_, _, _)
ReadAll(pos, reads, len) ==
    IF reads = <<>> THEN Some(pos)
    ELSE IF ReadExact(pos, Head(reads), len) = None THEN None
         ELSE ReadAll(ReadExact(pos, Head(reads), len)[1], Tail(reads), len)

\* the loop `for _ in 0..count` over one record kind: the position after
\* the records and how many were inserted, or None at the first Err
RECURSIVE ReadRecords(_, _, _, _)
ReadRecords(pos, reads, count, len) ==
    IF count = 0 THEN Some(pos)
    ELSE IF ReadAll(pos, reads, len) = None THEN None
         ELSE ReadRecords(ReadAll(pos, reads, len)[1], reads, count - 1, len)

VmdErr == [ok |-> FALSE, model_name |-> 0, bone_keyframes |-> 0, morph_keyframes |-> 0]
VmdOk(model_name, bone_count, morph_count) ==
    [ok |-> TRUE, model_name |-> model_name, bone_keyframes |-> bone_count,
     morph_keyframes |-> morph_count]

\* VmdFile::load_from_reader
LoadFromReaderResult(input) ==
    LET len == input.len
        header == ReadExact(0, HeaderLen, len)
    IN  IF header = None THEN VmdErr
        ELSE IF input.magic \notin {"v1", "v2"} THEN VmdErr
        ELSE LET name == ReadExact(header[1], ModelNameLen, len) IN
             IF name = None THEN VmdErr
             ELSE LET bone_count == ReadExact(name[1], 4, len) IN
                  IF bone_count = None THEN VmdErr
                  ELSE LET bone_end == ReadRecords(bone_count[1], BoneRecordReads,
                                                  input.bone_keyframe_count, len) IN
                       IF bone_end = None THEN VmdErr
                       ELSE LET morph_count == ReadExact(bone_end[1], 4, len) IN
                            IF morph_count = None THEN VmdErr
                            ELSE IF ReadRecords(morph_count[1], MorphRecordReads,
                                                input.morph_keyframe_count, len) = None
                                 THEN VmdErr
                                 ELSE VmdOk(input.model_name, input.bone_keyframe_count,
                                            input.morph_keyframe_count)

RECURSIVE Sum(_)
Sum(reads) == IF reads = <<>> THEN 0 ELSE Head(reads) + Sum(Tail(reads))

\* the keyframe counts the files hold
KeyframeCounts == 0..2
\* the length of a file with those counts and nothing after the morph section
FileLen(bone_keyframe_count, morph_keyframe_count) ==
    HeaderLen + ModelNameLen + 4 + bone_keyframe_count * Sum(BoneRecordReads)
    + 4 + morph_keyframe_count * Sum(MorphRecordReads)

\* the inputs: every magic, two fillings of bytes 25..30, two model names,
\* every count and every length up to a few bytes after the morph section
VmdInputs ==
    { [magic |-> m, pad |-> p, model_name |-> n, bone_keyframe_count |-> b,
       morph_keyframe_count |-> k, len |-> l] :
      m \in {"v1", "v2", "bad"}, p \in {0, 1}, n \in {1, 2}, b \in KeyframeCounts,
      k \in KeyframeCounts, l \in 0..FileLen(2, 2) + 2 }

VlInit ==
    /\ vmd_input \in { i \in VmdInputs :
                         i.len <= FileLen(i.bone_keyframe_count, i.morph_keyframe_count) + 2 }
    /\ vmd_result = None

\* no reader while another subsystem is being exercised
VlIdle ==
    /\ vmd_input = [magic |-> "bad", pad |-> 0, model_name |-> 0, bone_keyframe_count |-> 0,
                    morph_keyframe_count |-> 0, len |-> 0]
    /\ vmd_result = None

LoadFromReader ==
    /\ vmd_result = None
    /\ vmd_result' = Some(LoadFromReaderResult(vmd_input))
    /\ UNCHANGED vmd_input
    /\ UNCHANGED vlOthers

VlNext ==
    \/ LoadFromReader

(***************************************************************************)
(* animation/vmd_loader.rs: the bone keyframes of a loaded motion and the  *)
(* samples taken from one of its tracks.                                   *)
(***************************************************************************)
\* the bone names the records carry
BoneNames == {"a", "c"}
\* the bone records of a file: name, frame index, translation z, rotation
\* about x and the interpolation bytes
BoneRecords ==
    { [name |-> n, frame_index |-> f, translation |-> v[1], orientation |-> v[1],
       interpolation |-> v[2]] :
      n \in BoneNames, f \in SeekFrames, v \in { <<0, "linear">>, <<1, "bezier">> } }
\* the bone sections of the files: as many records as the count says
BoneRecordFiles == UNION { [1..n -> BoneRecords] : n \in KeyframeCounts }

\* read_bone_keyframe: the name and the keyframe of one record
ReadBoneKeyframe_FirstOnly(rec) ==
    << rec.name,
       [frame_index |-> rec.frame_index, translation |-> 0 - rec.translation,
        orientation |-> 0 - rec.orientation,
        is_physics_simulation_enabled |-> rec.frame_index = 0,
        interpolation |-> rec.interpolation] >>
ReadBoneKeyframe(rec) ==
    << rec.name,
       [frame_index |-> rec.frame_index, translation |-> 0 - rec.translation,
        orientation |-> 0 - rec.orientation,
        is_physics_simulation_enabled |-> TRUE,
        interpolation |-> rec.interpolation] >>

\* Motion::new: no track holds a keyframe
MotionNew == [n \in BoneNames |-> <<>>]
\* Motion::insert_bone_keyframe: the keyframe goes into the track of that name
InsertBoneKeyframe(motion, name, keyframe) ==
    [motion EXCEPT ![name] = BTreeInsert(@, keyframe.frame_index, keyframe)]

\* the loop `for _ in 0..bone_keyframe_count` of load_from_reader
RECURSIVE LoadBoneKeyframes(_, _)
LoadBoneKeyframes(records, motion) ==
    IF records = <<>> THEN motion
    ELSE LoadBoneKeyframes(Tail(records),
             InsertBoneKeyframe(motion, ReadBoneKeyframe(Head(records))[1],
                                ReadBoneKeyframe(Head(records))[2]))

\* load_from_reader on a file with a valid header, after which the caller
\* takes the motion's track of one bone; a behaviour follows one loaded
\* motion, and samples of the track held before are dropped
LoadBoneTrack ==
    /\ track_call.op = "new"
    /\ \E file \in BoneRecordFiles, name \in BoneNames :
         /\ keyframes' = LoadBoneKeyframes(file, MotionNew)[name]
         /\ track_call' = [op |-> "load_from_reader", arg |-> file, ret |-> Some(name)]
    /\ seek_call' = NoSeek
    /\ UNCHANGED <<bzVars, phVars, rdVars, moVars, ikVars, smVars, morph_keyframes,
                   mtVars, vlVars, vaVars, cvVars>>

VmdSeekNext ==
    \/ LoadBoneTrack
    \/ Seek
    \/ BoneSeekPreciselyCall

(***************************************************************************)
(* animation/vmd_loader.rs: VmdAnimation::evaluate_with_weight.  A Vec3 is *)
(* one component, a rotation its angle about one axis in quarter turns,    *)
(* both exact fractions.                                                   *)
(***************************************************************************)
\* frame.floor() as u32 and frame.fract() for a frame >= 0
FrameIndex(frame) == frame[1] \div frame[2]
Fract(frame) == QSub(frame, Q(FrameIndex(frame), 1))

\* the names of the motion's tracks, in iteration order
BoneTrackNames == <<"a", "c">>
MorphTrackNames == <<"m", "x">>

\* Motion::find_bone_transform: the track's sample at frame_index + amount
\* (keyframes on a line: translation 4 per frame, a quarter turn per frame)
FindBoneTransform(name, frame_index, amount) ==
    [translation |-> QMul(Q(4, 1), QAdd(Q(frame_index, 1), amount)),
     orientation |-> QAdd(Q(frame_index, 1), amount)]
\* Motion::find_morph_weight (half a unit per frame)
FindMorphWeight(name, frame_index, amount) ==
    QMul(Q(1, 2), QAdd(Q(frame_index, 1), amount))

\* BoneManager::find_bone_by_name / MorphManager::find_morph_by_name
RECURSIVE FindByName(_, _, _)
FindByName(items, name, k) ==
    IF k > Len(items) THEN None
    ELSE IF items[k].name = name THEN Some(k - 1)
         ELSE FindByName(items, name, k + 1)

\* Vec3::lerp, Quat::slerp on the angle, and current + (sample - current) * weight
VmdLerp_Target(a, b, w) == b
VmdLerp(a, b, w) == QAdd(a, QMul(QSub(b, a), w))

\* weight >= 1.0 and weight > 0.0
Overwrites(weight) == ~QLess(weight, One)
Blends(weight) == QLess(Zero, weight)

\* the bone loop of evaluate_with_weight, lines 270-289
RECURSIVE EvaluateBones(_, _, _, _, _)
EvaluateBones(bs, names, frame_index, amount, weight) ==
    IF names = <<>> THEN bs
    ELSE LET bone_idx == FindByName(bs, Head(names), 1)
             next ==
                 IF bone_idx = None THEN bs
                 ELSE LET transform == FindBoneTransform(Head(names), frame_index, amount)
                          bone == bs[bone_idx[1] + 1]
                      IN  IF Overwrites(weight)
                          THEN [bs EXCEPT ![bone_idx[1] + 1].animation_translate = transform.translation,
                                          ![bone_idx[1] + 1].animation_rotate = transform.orientation]
                          ELSE IF Blends(weight)
                          THEN [bs EXCEPT ![bone_idx[1] + 1].animation_translate =
                                              VmdLerp(bone.animation_translate, transform.translation, weight),
                                          ![bone_idx[1] + 1].animation_rotate =
                                              VmdLerp(bone.animation_rotate, transform.orientation, weight)]
                          ELSE bs
         IN  EvaluateBones(next, Tail(names), frame_index, amount, weight)

\* the morph loop, lines 292-305
RECURSIVE EvaluateMorphs(_, _, _, _, _)
EvaluateMorphs(ms, names, frame_index, amount, weight) ==
    IF names = <<>> THEN ms
    ELSE LET morph_idx == FindByName(ms, Head(names), 1)
             next ==
                 IF morph_idx = None THEN ms
                 ELSE LET morph_weight == FindMorphWeight(Head(names), frame_index, amount)
                          current == ms[morph_idx[1] + 1].weight
                      IN  IF Overwrites(weight)
                          THEN [ms EXCEPT ![morph_idx[1] + 1].weight = morph_weight]
                          ELSE IF Blends(weight)
                          THEN [ms EXCEPT ![morph_idx[1] + 1].weight =
                                              VmdLerp(current, morph_weight, weight)]
                          ELSE ms
         IN  EvaluateMorphs(next, Tail(names), frame_index, amount, weight)

\* the frames and blend weights a caller passes
EvalFrames == {Q(0, 1), Q(1, 2), Q(1, 1), Q(5, 2)}
EvalWeights == {Zero, Q(1, 2), One}

NoEval == [op |-> "none", frame |-> Zero, weight |-> Zero, bones |-> <<>>, morphs |-> <<>>, n |-> 0]

\* a model with bones a (tracked) and b and morphs m (tracked) and n; the
\* motion also has tracks c and x the model lacks
VaInit ==
    /\ \E t \in {Zero, Q(8, 1)} :
         anim_bones = << [name |-> "a", animation_translate |-> t, animation_rotate |-> Zero],
                         [name |-> "b", animation_translate |-> Q(8, 1), animation_rotate |-> One] >>
    /\ \E w \in {Zero, One} :
         anim_morphs = << [name |-> "n", weight |-> One], [name |-> "m", weight |-> w] >>
    /\ eval_call = NoEval

VaIdle ==
    /\ anim_bones = <<>>
    /\ anim_morphs = <<>>
    /\ eval_call = NoEval

EvaluateWithWeight ==
    /\ eval_call.n < MaxEvals
    /\ \E frame \in EvalFrames, weight \in EvalWeights :
         /\ anim_bones' = EvaluateBones(anim_bones, BoneTrackNames, FrameIndex(frame),
                                        Fract(frame), weight)
         /\ anim_morphs' = EvaluateMorphs(anim_morphs, MorphTrackNames, FrameIndex(frame),
                                          Fract(frame), weight)
         /\ eval_call' = [op |-> "evaluate_with_weight", frame |-> frame, weight |-> weight,
                          bones |-> anim_bones, morphs |-> anim_morphs, n |-> eval_call.n + 1]
    /\ UNCHANGED vaOthers

VaNext ==
    \/ EvaluateWithWeight

(***************************************************************************)
(* animation/bezier_curve.rs: BezierCurve::new and value.  Coordinates of  *)
(* a curve of interval n are exact numerators over Den(n) = 4 * n^3, the   *)
(* control points being multiples of 1/4.                                  *)
(***************************************************************************)
\* control point coordinates in quarters: the unit square
CtrlDen == 4
UnitGrid == 0..CtrlDen

\* BezierCurve::new line 38: interval.max(1)
ClampInterval_Off(interval) == interval
ClampInterval(interval) == Max(interval, 1)

Den(interval) == CtrlDen * interval * interval * interval

\* the sample at t = i / interval, lines 43-48: P0 = (0, 0) adds nothing,
\* P1 = (1, 1) adds t^3
SamplePoint(c0, c1, interval, i) ==
    LET it == interval - i
        coord(a, b) == 3 * it * it * i * a + 3 * it * i * i * b + CtrlDen * i * i * i
    IN  <<coord(c0[1], c1[1]), coord(c0[2], c1[2])>>

\* sort_unstable_by on x: every point goes to the place its rank gives it
\* (points with equal x keep their order here)
RankByX(points, i) ==
    Cardinality({ j \in 1..Len(points) :
                    points[j][1] < points[i][1] \/ (points[j][1] = points[i][1] /\ j <= i) })
SortByX(points) ==
    [k \in 1..Len(points) |-> points[CHOOSE i \in 1..Len(points) : RankByX(points, i) = k]]

\* BezierCurve::new; an interval of 0 after the clamp gives the single
\* sample the loop 0..=0 pushes (t = 0 / 0)
BezierNewCurve(c0, c1, interval) ==
    LET n == ClampInterval(interval) IN
    [points |-> IF n = 0 THEN << <<0, 0>> >>
                ELSE SortByX([i \in 1..n + 1 |-> SamplePoint(c0, c1, n, i - 1)]),
     c0 |-> c0, c1 |-> c1, interval |-> n]

\* the loop of value, lines 129-135: n advances over the points until its
\* second point lies right of v or the points run out
Bracket(points, v) ==
    LET stops == { k \in 2..Len(points) - 1 : points[k][1] > v }
        k == IF stops = {} THEN Len(points)
             ELSE CHOOSE m \in stops : \A o \in stops : m <= o
    IN  <<points[k - 1], points[k]>>

\* BezierCurve::value(v), v a numerator over the curve's denominator: the
\* value, or None when points[1] or points[2..] is out of bounds (a panic)
CurveValueAt(curve, v) ==
    IF Len(curve.points) < 2 THEN None
    ELSE LET n == Bracket(curve.points, v)
         IN  IF n[1][1] = n[2][1] THEN Some(n[1][2])
             ELSE Some(n[1][2] + ((v - n[1][1]) * (n[2][2] - n[1][2])) \div (n[2][1] - n[1][1]))

\* the arguments of BezierCurve::new: every control point pair of the grid
\* with a small interval, and the diagonal curve of interval 100
CurveArgs ==
    { [c0 |-> <<a, b>>, c1 |-> <<c, d>>, interval |-> n] :
      a \in UnitGrid, b \in UnitGrid, c \in UnitGrid, d \in UnitGrid, n \in 0..MaxInterval }
    \cup { [c0 |-> <<1, 1>>, c1 |-> <<3, 3>>, interval |-> 100] }

\* the arguments of value: 0, 1/4, 1/2, 3/4 and 1
ValueArgs(curve) == { (k * Den(curve.interval)) \div 4 : k \in 0..4 }

CvIdle ==
    /\ bezier = None
    /\ curve_call = [op |-> "none", arg |-> 0, ret |-> None]

CvInit == CvIdle

BezierNew ==
    /\ bezier = None
    /\ \E args \in CurveArgs :
         /\ bezier' = Some(BezierNewCurve(args.c0, args.c1, args.interval))
         /\ curve_call' = [op |-> "new", arg |-> args.interval, ret |-> None]
    /\ UNCHANGED cvOthers

BezierValue ==
    /\ bezier # None
    /\ \E v \in ValueArgs(bezier[1]) :
         curve_call' = [op |-> "value", arg |-> v, ret |-> CurveValueAt(bezier[1], v)]
    /\ UNCHANGED bezier
    /\ UNCHANGED cvOthers

CvNext ==
    \/ BezierNew
    \/ BezierValue

(***************************************************************************)
(* Claims about the Bezier curve cache                                     *)
(***************************************************************************)
SameCtrl(r1, r2) == r1.c0 = r2.c0 /\ r1.c1 = r2.c1

\* the request of a completed call does not exceed the interval of the curve
\* cached under its control points
Fits(r) ==
    LET k == CurveCacheKey(r.c0, r.c1, r.interval) IN
        /\ k \in DOMAIN cache
        /\ r.interval <= curves[cache[k]].interval

C3_NeverBlocks ==
    \A t \in Threads :
        /\ pc[t] = "read" => ENABLED ReadLock(t)
        /\ pc[t] = "write" => ENABLED WriteLock(t)

\* C20: a completed get_or_new(key, n) returned a curve whose interval is at
\* least max(n, 1): the cached handle when its interval is >= n, a fresh
\* curve of interval n when the cached one is smaller, and the curve it
\* built and stored when nothing was cached under the key.
C20_ReturnedIntervalCovers ==
    \A r \in returned : curves[r.handle].interval >= Max(r.interval, 1)

\* two completed calls of different threads with the same control points and
\* the same interval, each entered while the cache held no curve for the key
Raced(r1, r2) ==
    /\ r1.t # r2.t
    /\ SameCtrl(r1, r2) /\ r1.interval = r2.interval
    /\ r1.absent /\ r2.absent
SameCachedHandle(r1, r2) ==
    LET k == CurveCacheKey(r1.c0, r1.c1, r1.interval) IN
        /\ r1.handle = r2.handle
        /\ k \in DOMAIN cache /\ cache[k] = r1.handle
\* no get_or_new step replaces or removes an entry of the cache
EntriesKept ==
    \A k \in DOMAIN cache : k \in DOMAIN cache' /\ cache'[k] = cache[k]

Before(kindsA, kindsB) ==
    \A i, j \in 1..Len(ffi_log) :
        (ffi_log[i][1] \in kindsA /\ ffi_log[j][1] \in kindsB) => i < j

\* C1: on drop every remove_constraint call precedes every remove_rigid_body
\* call, and every removal precedes the destruction of any constraint handle,
\* body handle or the world; after the drop, every constraint and body that
\* had been added to the world has been removed.
C1_ReleaseOrder ==
    /\ Before({"remove_constraint"}, {"remove_rigid_body"})
    /\ Before({"remove_constraint", "remove_rigid_body"},
              {"destroy_constraint", "destroy_body", "destroy_world"})
    /\ phase = "dropped" =>
          \A k \in {"constraint", "rigid_body"} :
              \A i \in 1..Len(ffi_log) :
                  ffi_log[i][1] = "add_" \o k =>
                      \E j \in i + 1..Len(ffi_log) : ffi_log[j] = <<"remove_" \o k, ffi_log[i][2]>>

\* a dropped bridge that held a body without a handle, two bodies with one
\* and a constraint between them
C1_Witness ==
    /\ phase = "dropped"
    /\ \E i \in 1..Len(rigid_bodies) : rigid_bodies[i].bullet_body = None
    /\ \E i \in 1..Len(ffi_log) : ffi_log[i][1] = "remove_constraint"
    /\ \E i \in 1..Len(ffi_log) : ffi_log[i][1] = "remove_rigid_body"

\* C10 (as stated): no add_rigid_body and no add_constraint call happens
\* before every rigid body and every joint has been constructed and stored.
C10_AddAfterAllCreated ==
    Before({"store_body", "store_joint"}, {"add_rigid_body", "add_constraint"})

\* C10 (amended): add_rigid_body is called only after every rigid body has
\* been constructed and stored, and add_constraint only after every joint has
\* been constructed and stored; the joints are constructed after the bodies
\* were added to the world.
C10_TwoPhaseBuild ==
    /\ Before({"store_body"}, {"add_rigid_body", "store_joint", "add_constraint"})
    /\ Before({"store_joint"}, {"add_constraint"})
    /\ Before({"add_rigid_body"}, {"store_joint"})

\* a built bridge with two bodies in the world and a constraint between them
C10_Witness ==
    /\ phase = "built"
    /\ Cardinality(world.bodies) >= 2
    /\ world.constraints # {}

(***************************************************************************)
(* Claims about the PMX section readers                                    *)
(***************************************************************************)
SectionNames == {"display_frame", "rigid_body", "joint"}

ErrAt(x, i) == history[x][i].res = "Err"

C4_State ==
    /\ \A x \in SectionNames :
          \* poisoned exactly when some next() returned an error
          /\ readers[x].poison <=> \E i \in 1..Len(history[x]) : ErrAt(x, i)
          \* after the first error no next() returns a record, Ok(None) or Err
          /\ \A i, j \in 1..Len(history[x]) :
                 (ErrAt(x, i) /\ i < j) => history[x][j].res = "panic"
    \* a reader whose predecessor was poisoned is never constructed
    /\ \A k \in 1..2 :
          readers[Sections[k]].poison => readers[Sections[k + 1]].state = "absent"

\* C4: a section reader is poisoned by the first next() that returns an
\* error and stays poisoned; afterwards no next() on it returns a record or
\* Ok(None), and new() of the following section never yields a reader from
\* it; a reader that never returned an error is not poisoned.
C4_PoisonedReaderRefuses ==
    /\ []C4_State
    /\ [][\A x \in SectionNames : readers[x].poison => readers'[x].poison]_vars

\* the rigid-body reader returned a record, then an error, and was called again
C4_Witness ==
    \E i, j, k \in 1..Len(history["rigid_body"]) :
        /\ i < j /\ j < k
        /\ history["rigid_body"][i].res = "Some"
        /\ history["rigid_body"][j].res = "Err"
        /\ history["rigid_body"][k].res = "panic"

\* the i-th next() of the rigid-body reader met a record that was read in
\* full and carries a shape or mode code other than 0, 1, 2
BadCodeAt(i) ==
    LET e == history["rigid_body"][i] IN
        /\ e.rec # None
        /\ e.rec[1].io = "ok"
        /\ (e.rec[1].shape \notin {0, 1, 2} \/ e.rec[1].mode \notin {0, 1, 2})

BadCodeSeen == \E i \in 1..Len(history["rigid_body"]) : BadCodeAt(i)

RbNextReturnsRecord ==
    /\ ReaderNext("rigid_body")
    /\ history'["rigid_body"][Len(history'["rigid_body"])].res = "Some"

JointReaderNewSucceeds ==
    /\ ReaderNew(2)
    /\ readers'["joint"].state = "live"

\* C5 (as stated): after a rigid-body record with an invalid shape or mode
\* code only that record is skipped: the records after it and the joint
\* section can still be read.
C5_LoadContinues ==
    (BadCodeSeen /\ readers["rigid_body"].state = "live" /\ nops < MaxOps) =>
        /\ readers["rigid_body"].remaining > 0 => ENABLED RbNextReturnsRecord
        /\ ENABLED JointReaderNewSucceeds

\* C5 (amended): a rigid-body record with an invalid shape or mode code makes
\* next() return an error and poisons the reader: no later next() on it
\* returns anything, and no joint reader is ever built from it.
C5_BadCodeAborts ==
    \A i \in 1..Len(history["rigid_body"]) :
        BadCodeAt(i) =>
            /\ history["rigid_body"][i].res = "Err"
            /\ readers["rigid_body"].poison
            /\ \A j \in i + 1..Len(history["rigid_body"]) :
                   history["rigid_body"][j].res = "panic"
            /\ readers["joint"].state = "absent"

\* a bad code met with records still announced, and JointReader::new tried
C5_Witness ==
    /\ BadCodeSeen
    /\ readers["rigid_body"].remaining > 0
    /\ readers["rigid_body"].state = "dropped"

(***************************************************************************)
(* Claims about the morph manager                                          *)
(***************************************************************************)
\* C6: apply_morphs terminates for every morph set, cycles of Group/Flip
\* morphs included, and no morph is processed at a recursion depth greater
\* than 16 (the call stack never holds more than 18 frames).
C6_RecursionBounded ==
    /\ [](/\ \A d \in processed : d[2] <= 16
          /\ Len(mstack) <= 18
          /\ \A k \in 1..Len(mstack) : mstack[k].depth = k - 1)
    /\ (mpc = "run") ~> (mpc = "done")

\* a cycle was followed down to the deepest level and the call returned
C6_Witness ==
    /\ mpc = "done"
    /\ \E d \in processed : d[2] = 16
    /\ \E k \in 1..Len(morphs) : morphs[k].morph_type = "Flip"

(***************************************************************************)
(* Claims about the IK solver                                              *)
(***************************************************************************)
InRangeLinks == { AsUsize(Links[i]) : i \in 1..Len(Links) } \cap 0..Len(bones) - 1
\* the executed iteration with the smallest distance
BestIteration ==
    CHOOSE m \in 1..Len(ik_trace) :
        /\ \A j \in 1..Len(ik_trace) : ik_trace[m].distance <= ik_trace[j].distance
        /\ \A j \in 1..m - 1 : ik_trace[m].distance < ik_trace[j].distance

\* C12: IkSolver::solve never fails: for every IkConfig and skeleton it
\* returns normally, inverted limits, a negative limit_angle, negative or
\* out-of-range bone indices and zero iterations included.
C12_SolveNeverPanics == ik_pc # "panicked"

\* the hinge links of the chain whose bone exists and whose limits are an interval
HingeLinks ==
    { i \in 1..Len(solver.config.links) :
        /\ solver.config.links[i].has_limits
        /\ DetectPlaneSolveAxis(solver.config.links[i])
        /\ solver.config.links[i].limit_min <= solver.config.links[i].limit_max
        /\ AsUsize(Links[i]) < Len(bones) }
\* the rotation of a bone about the axis, as compute_local_transform composes it
LocalRotation(b) == QuatMul(b.ik_rotate, b.animation_rotate)
\* some representative of the angle lies in the interval
AngleWithin(q, limit_min, limit_max) ==
    \E turns \in {-4, 0} : limit_min <= q + turns /\ q + turns <= limit_max

\* C14: after solve has run at least one iteration and returned, the rotation
\* about the hinge axis of every link in plane mode lies inside
\* [limit_min, limit_max], whatever the pose, the target and the link's
\* animation_rotate.
C14_HingeWithinLimits ==
    (ik_pc = "done" /\ ik_trace # <<>>) =>
        \A i \in HingeLinks :
            AngleWithin(LocalRotation(bones[AsUsize(Links[i]) + 1]),
                        solver.config.links[i].limit_min, solver.config.links[i].limit_max)

\* the world transform of the parent of a bone, the identity for a root
ParentGlobal(bs, i) ==
    IF bs[i].parent_index >= 0 /\ AsUsize(bs[i].parent_index) < Len(bs)
    THEN bs[bs[i].parent_index + 1].local_to_world
    ELSE MatIdentity
\* every bone's local_to_parent is what compute_local_transform gives and its
\* local_to_world is the parent's local_to_world times its local_to_parent
Consistent(bs) ==
    \A i \in 1..Len(bs) :
        /\ bs[i].local_to_parent = ComputeLocalTransform(bs[i]).local_to_parent
        /\ bs[i].local_to_world = MatMul(ParentGlobal(bs, i), bs[i].local_to_parent)

\* C22: the skeleton is consistent before solve (local_to_world =
\* parent.local_to_world * local_to_parent, identity above a root, the
\* children cache matching the parent indices); then it is consistent when
\* solve returns, on every exit path: iterations exhausted, early exit with
\* rollback, the early returns, links in any order.
C22_TransformsConsistent ==
    ik_pc \in {"idle", "done"} => Consistent(bones)
\* solve returned through the rollback with a link turned and its subtree moved
C22_Witness ==
    /\ ik_pc = "done"
    /\ Len(ik_trace) >= 2
    /\ ik_trace[Len(ik_trace)].distance >= best_distance
    /\ bones[1].ik_rotate # 0
    /\ bones[3].local_to_world.pos # <<2, 0>>

\* the links that solve_plane has updated, with limits that are an interval
PlaneUpdated ==
    { i \in 1..Len(chain_states) :
        /\ chain_states[i].plane_input # None
        /\ solver.config.links[i].limit_min <= solver.config.links[i].limit_max }
Inside(a, limit_min, limit_max) == limit_min <= a /\ a <= limit_max
NearerEndpoint(a, limit_min, limit_max) == IF a < limit_min THEN limit_min ELSE limit_max
Abs(v) == IF v < 0 THEN 0 - v ELSE v
\* of a and -a, the one nearer to the middle of the limits, a on a tie
NearerMiddle(a, limit_min, limit_max) ==
    IF Abs(limit_min + limit_max - 2 * a) > Abs(limit_min + limit_max + 2 * a) THEN 0 - a ELSE a

\* C23 as stated: in plane mode, on iteration 0 only, an updated angle a
\* outside [limit_min, limit_max] becomes -a when -a is inside and otherwise
\* the limit endpoint nearer to a; on later iterations the angle is clamped
\* to the limits with no sign flip.
C23_FirstIterationNearerEndpoint ==
    \A i \in PlaneUpdated :
        LET lo == solver.config.links[i].limit_min
            hi == solver.config.links[i].limit_max
            iter == chain_states[i].plane_input[1][1]
            a == chain_states[i].plane_input[1][2]
            stored == chain_states[i].plane_mode_angle
        IN  IF iter = 0 /\ ~Inside(a, lo, hi)
            THEN stored = (IF Inside(0 - a, lo, hi) THEN 0 - a ELSE NearerEndpoint(a, lo, hi))
            ELSE stored = ClampF32(a, lo, hi)

\* C23, amended: in plane mode, on iteration 0 only, an updated angle a
\* outside [limit_min, limit_max] becomes -a when -a is inside; when neither
\* a nor -a is inside, the one of a and -a nearer to the middle of the limits
\* (a on a tie) is clamped to the limits.  On later iterations the angle is
\* clamped to the limits with no sign flip.
C23_FirstIterationMirror ==
    \A i \in PlaneUpdated :
        LET lo == solver.config.links[i].limit_min
            hi == solver.config.links[i].limit_max
            iter == chain_states[i].plane_input[1][1]
            a == chain_states[i].plane_input[1][2]
            stored == chain_states[i].plane_mode_angle
        IN  IF iter = 0 /\ ~Inside(a, lo, hi)
            THEN stored = (IF Inside(0 - a, lo, hi) THEN 0 - a
                           ELSE ClampF32(NearerMiddle(a, lo, hi), lo, hi))
            ELSE stored = ClampF32(a, lo, hi)
\* iteration 0 left an angle a with a and -a both outside the limits, and
\* the stored angle is the endpoint on the far side of a
C23_Witness ==
    \E i \in PlaneUpdated :
        LET lo == solver.config.links[i].limit_min
            hi == solver.config.links[i].limit_max
            a == chain_states[i].plane_input[1][2]
        IN  /\ chain_states[i].plane_input[1][1] = 0
            /\ ~Inside(a, lo, hi) /\ ~Inside(0 - a, lo, hi)
            /\ chain_states[i].plane_mode_angle # NearerEndpoint(a, lo, hi)

\* the three-axis links whose stored angle has been updated, with limits
\* that are an interval
EulerUpdated ==
    { i \in 1..Len(chain_states) :
        /\ chain_states[i].prev_before # None
        /\ solver.config.links[i].limit_min <= solver.config.links[i].limit_max }

C30_SolveIdempotent ==
    (ik_pc = "done" /\ ik_first # None) => bones = ik_first[1]
\* the second call has run its iterations and a link is turned
C30_Witness ==
    /\ ik_pc = "done" /\ ik_first # None
    /\ ik_trace # <<>>
    /\ \E l \in InRangeLinks : bones[l + 1].ik_rotate # 0
    /\ bones = ik_first[1]

\* PMX index i names a PMX rigid body that was created and added to the world
CreatedAndAdded(i) ==
    /\ i >= 0 /\ i < Len(build_args[1].pmx_rigid_bodies)
    /\ build_args[1].pmx_rigid_bodies[i + 1].made = "ok"
    /\ rigid_bodies[i + 1].bullet_body # None
    /\ rigid_bodies[i + 1].bullet_body[1] \in world.bodies
\* the two body indices of a PMX joint are in range, non-negative, different
\* and name bodies that were created and added
JointValid(pmx_joint) ==
    /\ pmx_joint.rigid_body_a_index # pmx_joint.rigid_body_b_index
    /\ CreatedAndAdded(pmx_joint.rigid_body_a_index)
    /\ CreatedAndAdded(pmx_joint.rigid_body_b_index)

\* C25: after build_physics, rigid body i of the bridge corresponds to PMX
\* rigid body i, a body whose shape or body creation failed keeping its slot
\* with no handle; a constraint is in the world only for a PMX joint whose
\* body indices are in range, non-negative, different and name bodies that
\* were created and added; every other joint is skipped, and the joints
\* after it are still built.
C25_BuildKeepsSlots ==
    phase = "built" =>
        LET args == build_args[1] IN
        /\ Len(rigid_bodies) = Len(args.pmx_rigid_bodies)
        /\ \A i \in 1..Len(rigid_bodies) :
              /\ rigid_bodies[i].bone_index = args.pmx_rigid_bodies[i].bone_index
              /\ rigid_bodies[i].physics_mode = PhysicsModeOf(args.pmx_rigid_bodies[i].mode)
              /\ (rigid_bodies[i].bullet_body = None) = (args.pmx_rigid_bodies[i].made # "ok")
              /\ rigid_bodies[i].bullet_body # None => rigid_bodies[i].bullet_body[1] \in world.bodies
        /\ \A c \in world.constraints :
              /\ c \in 1..Len(args.pmx_joints)
              /\ JointValid(args.pmx_joints[c])
        /\ \A j \in 1..Len(args.pmx_joints) :
              (\E k \in 1..Len(joints) : joints[k].pmx = j)
                  = (args.joints_enabled /\ JointValid(args.pmx_joints[j]))
\* a failed body keeps the third slot, the first joint is skipped and the
\* second one is added
C25_Witness ==
    /\ phase = "built"
    /\ Len(rigid_bodies) = 3
    /\ rigid_bodies[3].bullet_body = None
    /\ Len(build_args[1].pmx_joints) = 2
    /\ ~JointValid(build_args[1].pmx_joints[1])
    /\ world.constraints = {2}

\* the bones that a created Physics or PhysicsWithBone body is bound to,
\* among bone_count bones
DynamicBones(bone_count) ==
    { rigid_bodies[i].bone_index :
        i \in { k \in 1..Len(rigid_bodies) :
                  /\ rigid_bodies[k].physics_mode \in {"Physics", "PhysicsWithBone"}
                  /\ rigid_bodies[k].bullet_body # None
                  /\ rigid_bodies[k].bone_index >= 0
                  /\ rigid_bodies[k].bone_index < bone_count } }

\* C26: sync_bodies calls set_transform only on FollowBone bodies; sync_bones
\* writes only the bone matrices bound to created Physics / PhysicsWithBone
\* bodies with an in-range bone index and leaves every other entry of
\* bone_transforms unchanged; get_dynamic_bone_transforms returns only bone
\* indices of the precomputed dynamic bone index set.
C26_SyncSidesDisjoint ==
    /\ sync_call.op = "sync_bodies" =>
          /\ sync_call.after = sync_call.before
          /\ \A c \in 1..Len(sync_call.set_transform) :
                rigid_bodies[sync_call.set_transform[c].body].physics_mode = "FollowBone"
    /\ sync_call.op = "sync_bones" =>
          /\ Len(sync_call.after) = Len(sync_call.before)
          /\ sync_call.set_transform = <<>>
          /\ \A k \in 1..Len(sync_call.before) :
                sync_call.after[k] # sync_call.before[k]
                    => k - 1 \in DynamicBones(Len(sync_call.before))
    /\ sync_call.op = "get_dynamic_bone_transforms" =>
          \A r \in 1..Len(sync_call.ret) : sync_call.ret[r][1] \in dynamic_bone_indices
\* sync_bones wrote the bone of a created dynamic body and left alone the
\* bone of a body that was not created, next to a bone follower
C26_Witness ==
    /\ sync_call.op = "sync_bones"
    /\ Len(sync_call.before) = 2
    /\ sync_call.after[1] # sync_call.before[1]
    /\ sync_call.after[2] = sync_call.before[2]
    /\ \E i \in 1..Len(rigid_bodies) :
          rigid_bodies[i].bone_index = 1 /\ rigid_bodies[i].bullet_body = None
    /\ \E i \in 1..Len(rigid_bodies) :
          rigid_bodies[i].physics_mode = "FollowBone" /\ rigid_bodies[i].bullet_body # None

\* the frame at position p of the call stack was entered from the sub entry
\* that its caller, a Group or Flip morph, has just passed
EnteredFromGroup(p) ==
    LET f == mstack[p]
        parent == mstack[p - 1]
        group == morphs[parent.morph_idx + 1]
        entry == group.group_offsets[parent.sub - 1]
    IN  /\ group.morph_type \in {"Group", "Flip"}
        /\ entry.morph_index >= 0 /\ entry.morph_index < Len(morphs)
        /\ entry.morph_index # parent.morph_idx
        /\ f.morph_idx = entry.morph_index
        /\ f.effective_weight = DyMul(parent.effective_weight, entry.influence)
        /\ ~AbsBelowCut(parent.effective_weight)
C27_State ==
    /\ \A a \in 1..Len(active_morphs) :
          /\ AbsAboveCut(morphs[active_morphs[a][1] + 1].weight)
          /\ active_morphs[a][2] = morphs[active_morphs[a][1] + 1].weight
    /\ mstack # <<>> =>
          /\ AbsAboveCut(morphs[mstack[1].morph_idx + 1].weight)
          /\ mstack[1].effective_weight = morphs[mstack[1].morph_idx + 1].weight
    /\ \A p \in 2..Len(mstack) : EnteredFromGroup(p)
    /\ \A a \in 1..Len(applied) :
          /\ morphs[applied[a].morph_idx + 1].morph_type \notin {"Group", "Flip"}
          /\ ~AbsBelowCut(applied[a].weight)
\* the call on top of the stack is that of a Group or Flip morph
GroupOnTop ==
    /\ mstack # <<>>
    /\ Top(mstack).morph_idx < Len(morphs)
    /\ morphs[Top(mstack).morph_idx + 1].morph_type \in {"Group", "Flip"}

\* C27: a Group or Flip morph applied with effective weight w enters each
\* sub entry with w * influence, whatever the sub-morph's own weight, skips
\* the entries that name the group itself or lie outside the morph list
\* (negative indices included), goes no further on a branch whose effective
\* weight is below 0.001 in absolute value, and writes no buffer itself;
\* only morphs whose own |weight| > 0.001 start a top-level application.
C27_GroupRecursion ==
    /\ []C27_State
    /\ [][GroupOnTop => applied' = applied]_vars
\* a group two levels down was entered with a quarter of the top-level
\* weight, its own weight being zero, and a vertex morph has been written
C27_Witness ==
    /\ Len(mstack) >= 3
    /\ Top(mstack).effective_weight = Dy(1, 2)
    /\ morphs[Top(mstack).morph_idx + 1].weight = Dy(0, 0)
    /\ GroupOnTop /\ Top(mstack).sub > 1
    /\ applied # <<>>

\* C7: solve runs at most `iterations` outer iterations; while the loop runs
\* every executed iteration improved strictly and the snapshot holds the
\* links' ik_rotate of the last one; when solve has returned, every link's
\* ik_rotate is its value at the end of the executed iteration with the
\* smallest distance and the final distance is not larger than the distance
\* after any executed iteration.
C7_BestIterationKept ==
    /\ Len(ik_trace) <= solver.config.iterations
    /\ Len(ik_trace) <= iteration + 1
    /\ ik_pc = "loop" =>
         /\ Len(ik_trace) = iteration
         /\ \A j \in 1..Len(ik_trace) - 1 : ik_trace[j + 1].distance < ik_trace[j].distance
         /\ ik_trace # <<>> =>
              /\ best_distance = ik_trace[Len(ik_trace)].distance
              /\ \A i \in 1..Len(Links) : AsUsize(Links[i]) < Len(bones) =>
                    chain_states[i].best_ik_rotate
                        = ik_trace[Len(ik_trace)].ik_rotate[AsUsize(Links[i]) + 1]
    /\ (ik_pc = "done" /\ ik_trace # <<>>) =>
         /\ \A l \in InRangeLinks :
               bones[l + 1].ik_rotate = ik_trace[BestIteration].ik_rotate[l + 1]
         /\ \A j \in 1..Len(ik_trace) : Distance(bones) <= ik_trace[j].distance
         /\ Distance(bones) = ik_trace[BestIteration].distance

\* solve returned by the rollback: the last iteration moved a link and was
\* worse than the one before it
C7_Witness ==
    /\ ik_pc = "done"
    /\ Len(ik_trace) >= 2
    /\ ik_trace[Len(ik_trace)].distance > ik_trace[Len(ik_trace) - 1].distance
    /\ \E l \in InRangeLinks : ik_trace[Len(ik_trace)].ik_rotate[l + 1] # bones[l + 1].ik_rotate

(***************************************************************************)
(* Claims about the bone motion track                                      *)
(***************************************************************************)
StoredIndices == { keyframes[i].frame_index : i \in 1..Len(keyframes) }
Below(f) == { i \in StoredIndices : i <= f }
Above(f) == { i \in StoredIndices : i > f }
Greatest(S) == CHOOSE x \in S : \A y \in S : y <= x
Least(S) == CHOOSE x \in S : \A y \in S : x <= y
KeyframeAt(f) == keyframes[CHOOSE i \in 1..Len(keyframes) : keyframes[i].frame_index = f]
\* f lies strictly between two stored keyframes
Bracketed(f) == f \notin StoredIndices /\ Below(f) # {} /\ Above(f) # {}

\* C8: seek(f) for f strictly between the bracketing keyframes prev and
\* next: with prev physics-enabled and next disabled the result carries next's
\* translation and orientation unchanged, local_transform_mix = Some(coef),
\* enable_physics = false and disable_physics = true; in the other three flag
\* combinations it is the interpolated frame with local_transform_mix = None,
\* disable_physics = false and enable_physics = prev enabled AND next enabled.
C8_PhysicsHandoff ==
    (track_call.op = "seek" /\ Bracketed(track_call.arg)) =>
        LET f == track_call.arg
            prev == KeyframeAt(Greatest(Below(f)))
            next == KeyframeAt(Least(Above(f)))
            coef == <<f - prev.frame_index, next.frame_index - prev.frame_index>>
            amount == <<next.interpolation, next.frame_index - prev.frame_index, coef[1], coef[2]>>
            ret == track_call.ret
        IN  IF prev.is_physics_simulation_enabled /\ ~next.is_physics_simulation_enabled
            THEN /\ ret.translation = <<next.translation, next.translation, NoAmount>>
                 /\ ret.orientation = <<next.orientation, next.orientation, NoAmount>>
                 /\ ret.local_transform_mix = Some(coef)
                 /\ ~ret.enable_physics
                 /\ ret.disable_physics
            ELSE /\ ret.translation = <<prev.translation, next.translation, amount>>
                 /\ ret.orientation = <<prev.orientation, next.orientation, amount>>
                 /\ ret.local_transform_mix = None
                 /\ ~ret.disable_physics
                 /\ ret.enable_physics = (prev.is_physics_simulation_enabled
                                            /\ next.is_physics_simulation_enabled)

\* a seek between a physics-enabled keyframe and a disabled one that differ in
\* their translation
C8_Witness ==
    /\ track_call.op = "seek" /\ Bracketed(track_call.arg)
    /\ track_call.ret.disable_physics
    /\ KeyframeAt(Greatest(Below(track_call.arg))).translation
         # KeyframeAt(Least(Above(track_call.arg))).translation

\* C9: after any sequence of insert_keyframe and remove_keyframe calls the
\* track holds at most one keyframe per frame_index, a later insert at a
\* stored index replacing the earlier keyframe, and search_closest(f) returns
\* the greatest stored index <= f (none if there is none) and the smallest
\* stored index > f (none if there is none), so that prev <= f < next.
C9_State ==
    /\ \A i, j \in 1..Len(keyframes) :
          keyframes[i].frame_index = keyframes[j].frame_index => i = j
    /\ track_call.op = "search_closest" =>
          LET f == track_call.arg
              prev == track_call.ret[1]
              next == track_call.ret[2]
          IN  /\ prev = (IF Below(f) = {} THEN None ELSE Some(Greatest(Below(f))))
              /\ next = (IF Above(f) = {} THEN None ELSE Some(Least(Above(f))))
              /\ prev # None => prev[1] <= f
              /\ next # None => f < next[1]
    /\ track_call.op = "insert_keyframe" =>
          \A i \in 1..Len(keyframes) :
              keyframes[i].frame_index = track_call.arg.frame_index => keyframes[i] = track_call.arg
C9_UniqueAndClosest ==
    /\ []C9_State
    /\ [][track_call'.op = "insert_keyframe" =>
            /\ track_call'.arg.frame_index \in { keyframes'[i].frame_index : i \in 1..Len(keyframes') }
            /\ Len(keyframes') = Len(keyframes) + (IF track_call'.ret = None THEN 1 ELSE 0)]_vars

\* a search between two keyframes of a track that holds at least three
C9_Witness ==
    /\ track_call.op = "search_closest"
    /\ track_call.ret[1] # None /\ track_call.ret[2] # None
    /\ track_call.ret[1][1] < track_call.arg
    /\ Len(keyframes) >= 3

(***************************************************************************)
(* Claims about the physics configuration and the per-frame calls          *)
(***************************************************************************)
\* C11: a write to the global physics configuration made after an MMDPhysics
\* was created does not change that instance: every
\* sync_bodies_with_model_velocity and step_simulation call issues the engine
\* calls it would issue under the configuration read at creation.
C11_ConfigFrozenAtCreation ==
    sim_op.op \in {"sync_bodies_with_model_velocity", "step_simulation"} =>
        sim_op.calls = sim_op.frozen_calls


AtRest(body) ==
    /\ body.state.transform = body.initial_transform
    /\ body.state.linear_velocity = 0
    /\ body.state.angular_velocity = 0
    /\ body.state.force = 0
InertiaApplied(op) == \E k \in 1..Len(op.calls) : op.calls[k][1] = "apply_central_force"

\* C19: after reset, following any sequence of per-frame calls, every created
\* rigid body is at its initial transform with zero linear and angular
\* velocity and cleared forces and prev_model_position is cleared; the next
\* sync_bodies_with_model_velocity call computes a model velocity of zero and
\* applies no inertia force, wherever the model is now.
C19_ResetRestoresRest ==
    /\ [](sim_op.op = "reset" =>
            /\ mmd[1].prev_model_position = None
            /\ \A i \in 1..Len(sim_bodies) : sim_bodies[i].bullet_body => AtRest(sim_bodies[i]))
    /\ [][(sim_op.op = "reset" /\ sim_op'.op = "sync_bodies_with_model_velocity")
            => (sim_op'.model_velocity = 0 /\ ~InertiaApplied(sim_op'))]_vars

\* a reset that found a moving body with accumulated force and a recorded
\* model position
C19_Witness ==
    /\ sim_op.op = "reset"
    /\ sim_op.before[1].prev_model_position # None
    /\ \E i \in 1..Len(sim_bodies) :
          /\ sim_bodies[i].bullet_body
          /\ sim_op.before[1].bodies[i].state.linear_velocity # 0
          /\ sim_op.before[1].bodies[i].state.force # 0
          /\ sim_op.before[1].bodies[i].state.transform # sim_bodies[i].initial_transform


(***************************************************************************)
(* Claims about seek_precisely                                             *)
(***************************************************************************)
\* C13: seek_precisely(f, a) with 0 < a < 1 on a bone track and on a morph
\* track returns the blend of seek(f) and seek(f + 1) for every u32 f, the
\* largest included: the call does not panic and f + 1 does not wrap to 0.
C13_SeekPreciselyEveryFrame ==
    /\ (seek_call.track = "bone" /\ Positive(seek_call.amount)) =>
           /\ ~seek_call.panicked
           /\ seek_call.ret = Some(BoneBlend(SeekFrame(seek_call.frame_index),
                                             SeekFrame(seek_call.frame_index + 1),
                                             seek_call.amount))
    /\ (seek_call.track = "morph" /\ Positive(seek_call.amount)) =>
           /\ ~seek_call.panicked
           /\ seek_call.ret = Some(LerpF32(MorphSeek(seek_call.frame_index),
                                           MorphSeek(seek_call.frame_index + 1),
                                           seek_call.amount))

(***************************************************************************)
(* Claims about the tracks of a loaded motion                              *)
(***************************************************************************)
\* a sample without the physics-flag handoff
NoHandoff(frame) ==
    /\ ~frame.disable_physics
    /\ frame.local_transform_mix = None
    /\ keyframes # <<>> => frame.enable_physics

\* C29: every bone keyframe of a motion loaded from a VMD file has physics
\* enabled, and every frame seek or seek_precisely returns from one of its
\* tracks has disable_physics = false and local_transform_mix = None, and
\* enable_physics = true when the track holds a keyframe
C29_LoadedTracksNeverHandOff ==
    /\ \A k \in 1..Len(keyframes) : keyframes[k].is_physics_simulation_enabled
    /\ track_call.op = "seek" => NoHandoff(track_call.ret)
    /\ (seek_call.track = "bone" /\ ~seek_call.panicked) => NoHandoff(seek_call.ret[1])

\* seek ran between the two keyframes of a loaded track and seek_precisely
\* blended two frames between them
C29_Witness ==
    /\ Len(keyframes) = 2
    /\ track_call.op = "seek"
    /\ keyframes[1].frame_index < track_call.arg
    /\ track_call.arg < keyframes[2].frame_index
    /\ track_call.ret.enable_physics
    /\ seek_call.track = "bone"
    /\ Positive(seek_call.amount)
    /\ ~seek_call.panicked
    /\ keyframes[1].frame_index < seek_call.frame_index
    /\ seek_call.frame_index + 1 < keyframes[2].frame_index
    /\ seek_call.ret[1].enable_physics

(***************************************************************************)
(* Claims about the material morph results and UV deltas                   *)
(***************************************************************************)
AllNeutral(results) == \A k \in 1..Len(results) : results[k] = MaterialMorphResultNew
AllZero(uv) == \A k \in 1..Len(uv) : uv[k] = Zero

\* C15: apply_morphs resets every material result to the neutral identity
\* and every UV delta to zero before it applies anything: the first offset
\* applied starts from neutral results, a second call in a row with the
\* same weights leaves the same results and deltas as the first, and with
\* every weight at 0 the results are neutral and the deltas zero.
C15_State ==
    mat_call.op = "apply_morphs" =>
        /\ mat_call.trace # <<>> => AllNeutral(mat_call.trace[1].before)
        /\ (\A k \in 1..Len(mat_morphs) : mat_morphs[k].weight = Zero) =>
               AllNeutral(material_morph_results) /\ AllZero(uv_morph_deltas)
C15_ApplyMorphsResets ==
    /\ []C15_State
    /\ [][(mat_call.op = "apply_morphs" /\ mat_call'.op = "apply_morphs") =>
              /\ material_morph_results' = material_morph_results
              /\ uv_morph_deltas' = uv_morph_deltas]_vars
C15_Witness ==
    /\ mat_call.op = "apply_morphs"
    /\ mat_call.prev = "apply_morphs"
    /\ ~AllNeutral(material_morph_results)
    /\ ~AllZero(uv_morph_deltas)

\* what one offset does to one property, in the words of the rule
OffsetRule(base, target, operation, w) ==
    IF operation = 0
    THEN Q(base[1] * (target[2] * w[2] + (target[1] - target[2]) * w[1]),
           base[2] * target[2] * w[2])
    ELSE Q(base[1] * target[2] * w[2] + target[1] * w[1] * base[2],
           base[2] * target[2] * w[2])
\* C16: one material morph offset applied with weight w changes exactly the
\* targeted results (index -1: every result; an index inside the list: that
\* result; an index past the end: none), each property becoming
\* base * (1 + (target - 1) * w) for operation 0 and base + target * w for
\* operation 1, base being the current value: edge_size 1 with target 2 and
\* w = 1/2 gives 3/2, and a second offset with w = 1 gives 3.
C16_OffsetApplication ==
    mat_call.op = "apply_morphs" =>
        /\ \A i \in 1..Len(mat_call.trace) :
             LET e == mat_call.trace[i] IN
             /\ Len(e.after) = Len(e.before)
             /\ \A k \in 1..Len(e.before) :
                  IF e.offset.material_index = -1 \/ e.offset.material_index = k - 1
                  THEN /\ e.after[k].edge_size =
                             OffsetRule(e.before[k].edge_size, e.offset.edge_size,
                                        e.offset.operation, e.weight)
                       /\ e.after[k].edge_color =
                             OffsetRule(e.before[k].edge_color, e.offset.edge_color,
                                        e.offset.operation, e.weight)
                  ELSE e.after[k] = e.before[k]
        /\ \A i \in 1..Len(mat_call.trace) - 1 :
             mat_call.trace[i + 1].before = mat_call.trace[i].after
        /\ mat_call.trace # <<>> =>
             material_morph_results = mat_call.trace[Len(mat_call.trace)].after
        /\ ( /\ mat_morphs[1].weight = Q(1, 2) /\ mat_morphs[4].weight = One
             /\ \A k \in {2, 3, 5, 6} : mat_morphs[k].weight = Zero ) =>
               /\ mat_call.trace[1].after[1].edge_size = Q(3, 2)
               /\ material_morph_results[1].edge_size = Q(3, 1)
C16_Witness ==
    /\ mat_call.op = "apply_morphs"
    /\ \E i, j, k \in 1..Len(mat_call.trace) :
         /\ mat_call.trace[i].offset.material_index = -1
         /\ mat_call.trace[j].offset.material_index = Len(material_morph_results)
         /\ mat_call.trace[k].offset.material_index = 0
         /\ mat_call.trace[k].before[1].edge_size = Q(3, 2)
         /\ mat_call.trace[k].weight = One
    /\ \E i \in 1..Len(mat_call.trace) : mat_call.trace[i].offset.operation = 1
    /\ material_morph_results[1].edge_size = Q(3, 1)

(***************************************************************************)
(* Claims about the VMD loader                                             *)
(***************************************************************************)
\* C17: load_from_reader succeeds exactly when the first 25 bytes are one
\* of the two magic strings and the input holds the 30-byte header, the
\* 20-byte model name, the bone keyframe count with that many complete
\* records and the morph keyframe count with that many complete records.
\* Every other input gives an error without a motion, and neither bytes
\* 25..30 nor the bytes after the morph section change the result.
C17_LoadSucceedsExactly ==
    vmd_result # None =>
        LET complete ==
                vmd_input.len >= 30 + 20 + 4
                                 + vmd_input.bone_keyframe_count * (15 + 4 + 3 * 4 + 4 * 4 + 64)
                                 + 4 + vmd_input.morph_keyframe_count * (15 + 4 + 4)
        IN  /\ vmd_result[1].ok <=> (vmd_input.magic \in {"v1", "v2"} /\ complete)
            /\ vmd_result[1].ok =>
                   vmd_result[1] = [ok |-> TRUE, model_name |-> vmd_input.model_name,
                                    bone_keyframes |-> vmd_input.bone_keyframe_count,
                                    morph_keyframes |-> vmd_input.morph_keyframe_count]
            /\ ~vmd_result[1].ok =>
                   vmd_result[1].bone_keyframes = 0 /\ vmd_result[1].morph_keyframes = 0
C17_Witness ==
    /\ vmd_result # None
    /\ vmd_result[1].ok
    /\ vmd_input.bone_keyframe_count = 2
    /\ vmd_input.morph_keyframe_count = 1
    /\ vmd_input.pad = 1
    /\ vmd_input.len > FileLen(2, 1)

(***************************************************************************)
(* Claims about the animation evaluator                                    *)
(***************************************************************************)
Tracked(name, names) == \E k \in 1..Len(names) : names[k] = name
\* the value the three-way rule gives: the sample for weight 1, the blend
\* of the current value toward the sample for a weight between 0 and 1, the
\* current value for weight 0
ThreeWay(current, sample, weight) ==
    CASE weight = One -> sample
      [] weight = Zero -> current
      [] OTHER -> Q(current[1] * sample[2] * weight[2]
                      + (sample[1] * current[2] - current[1] * sample[2]) * weight[1],
                    current[2] * sample[2] * weight[2])

Near(a, b, num, den, interval) ==
    /\ (a - b) * den <= num * Den(interval)
    /\ (b - a) * den <= num * Den(interval)

\* C21: a curve built with control points in the unit square and any
\* interval (0 counts as 1) has at least two samples, so value never indexes
\* outside the table; value(0) is 0 and value(1) is 1 within 1/100; the
\* diagonal curve (1/4, 1/4), (3/4, 3/4) of interval 100 has value(1/2)
\* within 1/20 of 1/2.
C21_CurveEndpoints ==
    /\ bezier # None =>
           /\ bezier[1].interval >= 1
           /\ Len(bezier[1].points) = bezier[1].interval + 1
    /\ curve_call.op = "value" =>
           LET n == bezier[1].interval IN
           /\ curve_call.ret # None
           /\ curve_call.arg = 0 => Near(curve_call.ret[1], 0, 1, 100, n)
           /\ curve_call.arg = Den(n) => Near(curve_call.ret[1], Den(n), 1, 100, n)
           /\ ( /\ n = 100 /\ bezier[1].c0 = <<1, 1>> /\ bezier[1].c1 = <<3, 3>>
                /\ curve_call.arg = Den(n) \div 2 ) =>
                  Near(curve_call.ret[1], Den(n) \div 2, 1, 20, n)
C21_Witness ==
    /\ curve_call.op = "value"
    /\ bezier[1].interval = 100
    /\ curve_call.arg = Den(100) \div 2
    /\ curve_call.ret # None

(***************************************************************************)
(* Specifications: one per subsystem                                       *)
(***************************************************************************)
InitBezier == BzInit /\ PhInit /\ RdIdle /\ MoIdle /\ IkIdle /\ TkInit /\ SmIdle /\ SkIdle /\ MtIdle /\ VlIdle /\ VaIdle /\ CvIdle
SpecBezier == InitBezier /\ [][BzNext]_vars

InitPhysics == PhInit /\ BzIdle /\ RdIdle /\ MoIdle /\ IkIdle /\ TkInit /\ SmIdle /\ SkIdle /\ MtIdle /\ VlIdle /\ VaIdle /\ CvIdle
SpecPhysics == InitPhysics /\ [][PhNext]_vars
SpecPhysicsSync == InitPhysics /\ [][PhSyncNext]_vars

InitPmx == RdInit /\ BzIdle /\ PhInit /\ MoIdle /\ IkIdle /\ TkInit /\ SmIdle /\ SkIdle /\ MtIdle /\ VlIdle /\ VaIdle /\ CvIdle
SpecPmx == InitPmx /\ [][RdNext]_vars

InitMorph == MoInit /\ BzIdle /\ PhInit /\ RdIdle /\ IkIdle /\ TkInit /\ SmIdle /\ SkIdle /\ MtIdle /\ VlIdle /\ VaIdle /\ CvIdle
SpecMorph == InitMorph /\ [][MoNext]_vars
\* apply_morphs is straight-line code on one thread: once called it keeps running
SpecMorphFair == SpecMorph /\ WF_vars(MoNext)

InitIk == IkInit /\ BzIdle /\ PhInit /\ RdIdle /\ MoIdle /\ TkInit /\ SmIdle /\ SkIdle /\ MtIdle /\ VlIdle /\ VaIdle /\ CvIdle
SpecIk == InitIk /\ [][IkNext]_vars
InitIkAgain == IkInitAgain /\ BzIdle /\ PhInit /\ RdIdle /\ MoIdle /\ TkInit /\ SmIdle /\ SkIdle /\ MtIdle /\ VlIdle /\ VaIdle /\ CvIdle
SpecIkAgain == InitIkAgain /\ [][IkNext]_vars

InitTrack == TkInit /\ BzIdle /\ PhInit /\ RdIdle /\ MoIdle /\ IkIdle /\ SmIdle /\ SkIdle /\ MtIdle /\ VlIdle /\ VaIdle /\ CvIdle
SpecTrack == InitTrack /\ [][TkNext]_vars

InitSim == SmInit /\ BzIdle /\ PhInit /\ RdIdle /\ MoIdle /\ IkIdle /\ TkInit /\ SkIdle /\ MtIdle /\ VlIdle /\ VaIdle /\ CvIdle
SpecSim == InitSim /\ [][SmNext]_vars

InitSeek == SkInit /\ BzInit /\ PhInit /\ RdIdle /\ MoIdle /\ IkIdle /\ SmIdle /\ MtIdle /\ VlIdle /\ VaIdle /\ CvIdle
SpecSeek == InitSeek /\ [][SkNext]_vars

\* a motion loaded from a file and sampled
InitVmdSeek == TkInit /\ BzInit /\ PhInit /\ RdIdle /\ MoIdle /\ IkIdle /\ SmIdle /\ SkIdle /\ MtIdle /\ VlIdle /\ VaIdle /\ CvIdle
SpecVmdSeek == InitVmdSeek /\ [][VmdSeekNext]_vars

InitMaterial == MtInit /\ BzIdle /\ PhInit /\ RdIdle /\ MoIdle /\ IkIdle /\ TkInit /\ SmIdle /\ SkIdle /\ VlIdle /\ VaIdle /\ CvIdle
SpecMaterial == InitMaterial /\ [][MtNext]_vars

InitVmdLoad == VlInit /\ BzIdle /\ PhInit /\ RdIdle /\ MoIdle /\ IkIdle /\ TkInit /\ SmIdle /\ SkIdle /\ MtIdle /\ VaIdle /\ CvIdle
SpecVmdLoad == InitVmdLoad /\ [][VlNext]_vars

InitVmdEval == VaInit /\ BzIdle /\ PhInit /\ RdIdle /\ MoIdle /\ IkIdle /\ TkInit /\ SmIdle /\ SkIdle /\ MtIdle /\ VlIdle /\ CvIdle
SpecVmdEval == InitVmdEval /\ [][VaNext]_vars

InitCurve == CvInit /\ BzIdle /\ PhInit /\ RdIdle /\ MoIdle /\ IkIdle /\ TkInit /\ SmIdle /\ SkIdle /\ MtIdle /\ VlIdle /\ VaIdle
SpecCurve == InitCurve /\ [][CvNext]_vars

====
